---- MODULE Spec2Model ----
(***************************************************************************)
(* Workflow service of coze-studio: draft save / publish, closure copy     *)
(* (CopyWorkflowFromAppToLibrary, DuplicateWorkflowsByAppID) and the       *)
(* suspend / resume protocol of the workflow runner.                       *)
(***************************************************************************)
EXTENDS Integers, Sequences, FiniteSets, TLC

(***************************************************************************)
(* Bounds of the model                                                     *)
(***************************************************************************)
MaxWorkflows == 1
MaxCommits == 4
MaxVersions == 3

(***************************************************************************)
(* Canvas: nodes (with nested Blocks), edges and a cosmetic layout         *)
(***************************************************************************)
NodeTypeEntry == "Entry"
NodeTypeExit == "Exit"
NodeTypeLLM == "LLM"
NodeTypeSubWorkflow == "SubWorkflow"
NodeTypeLoop == "Loop"
NodeTypeDisallowed == "Disallowed"

Node(id, type) ==
    [ID |-> id, Type |-> type, WorkflowID |-> "", WorkflowVersion |-> "",
     WorkflowList |-> <<>>, Blocks |-> <<>>]

SubWorkflowNode(id, wid, ver) ==
    [Node(id, NodeTypeSubWorkflow) EXCEPT !.WorkflowID = wid, !.WorkflowVersion = ver]

WorkflowTool(wid, ver) == [WorkflowID |-> wid, WorkflowVersion |-> ver]

LLMNode(id, tools) == [Node(id, NodeTypeLLM) EXCEPT !.WorkflowList = tools]

LoopNode(id, blocks) == [Node(id, NodeTypeLoop) EXCEPT !.Blocks = blocks]

\* node.Data of an Entry or Exit node: the variables the Entry node declares as
\* its outputs, the parameters the Exit node takes as its inputs
NodeData(outputs, inputParameters) == [Outputs |-> outputs, InputParameters |-> inputParameters]

WithData(node, data) == node @@ [Data |-> data]

NoData == [nil |-> TRUE]

\* node.Data, a pointer that is nil on a node that came without data
DataOf(node) == IF "Data" \in DOMAIN node THEN node.Data ELSE NoData

Variable(name, type) == [Name |-> name, Type |-> type]

Edge(from, to) == [SourceNodeID |-> from, TargetNodeID |-> to]

Canvas(nodes, edges, layout) == [Nodes |-> nodes, Edges |-> edges, Layout |-> layout]

RECURSIVE FlattenNodes(_)
FlattenNodes(nodes) ==
    IF nodes = <<>> THEN <<>>
    ELSE <<Head(nodes)>> \o FlattenNodes(Head(nodes).Blocks) \o FlattenNodes(Tail(nodes))

SeqRange(s) == {s[k] : k \in 1..Len(s)}

(***************************************************************************)
(* strconv.ParseInt / strconv.FormatInt over the IDs the model uses        *)
(***************************************************************************)
MaxID == 40

FormatInt(n) == ToString(n)

ParseInt(s) ==
    IF \E n \in 0..MaxID : ToString(n) = s
    THEN [err |-> FALSE, val |-> CHOOSE n \in 0..MaxID : ToString(n) = s]
    ELSE [err |-> TRUE, val |-> 0]

(***************************************************************************)
(* sonic.MarshalString / sonic.UnmarshalString of a canvas                 *)
(***************************************************************************)
NotJSON == [garbage |-> "{"]

MarshalString(c) == [json |-> c]

UnmarshalString(s) ==
    IF s = NotJSON THEN [err |-> TRUE, val |-> Canvas(<<>>, <<>>, 0)]
    ELSE [err |-> FALSE, val |-> s.json]

(***************************************************************************)
(* adaptor.CanvasToWorkflowSchema and WorkflowSchema.IsEqual               *)
(***************************************************************************)
RECURSIVE compileNodes(_)
compileNodes(nodes) ==
    IF nodes = <<>> THEN <<>>
    ELSE LET n == Head(nodes) IN
         <<[Key |-> n.ID, Type |-> n.Type, WorkflowID |-> n.WorkflowID,
            WorkflowVersion |-> n.WorkflowVersion, WorkflowList |-> n.WorkflowList,
            Data |-> DataOf(n),
            Blocks |-> compileNodes(n.Blocks)]>> \o compileNodes(Tail(nodes))

IsIsolated(c, n) ==
    /\ n.Type \notin {NodeTypeEntry, NodeTypeExit}
    /\ \A k \in 1..Len(c.Edges) :
          c.Edges[k].SourceNodeID # n.ID /\ c.Edges[k].TargetNodeID # n.ID

PruneIsolatedNodes(c) ==
    [c EXCEPT !.Nodes = SelectSeq(c.Nodes, LAMBDA n : ~IsIsolated(c, n))]

CanvasToWorkflowSchema(c) ==
    LET pruned == PruneIsolatedNodes(c)
        flat == FlattenNodes(pruned.Nodes)
        ids == {flat[k].ID : k \in 1..Len(flat)}
        legal == /\ Cardinality(ids) = Len(flat)
                 /\ Len(flat) > 0
                 /\ \A k \in 1..Len(c.Edges) :
                       c.Edges[k].SourceNodeID \in ids /\ c.Edges[k].TargetNodeID \in ids
    IN IF legal
       THEN [err |-> FALSE,
             sc |-> [Nodes |-> compileNodes(pruned.Nodes),
                     Connections |-> [k \in 1..Len(c.Edges) |->
                         [FromNode |-> c.Edges[k].SourceNodeID,
                          ToNode |-> c.Edges[k].TargetNodeID]]]]
       ELSE [err |-> TRUE, sc |-> [Nodes |-> <<>>, Connections |-> <<>>]]

IsEqual(a, b) == a.Nodes = b.Nodes /\ SeqRange(a.Connections) = SeqRange(b.Connections)

(***************************************************************************)
(* parseVersion / isIncremental: "vMAJOR.MINOR.PATCH" as a comparable tuple *)
(***************************************************************************)
VersionStrings == {"v0.0.2", "v0.0.10", "v0.1.0", "latest"}

parseVersion(v) ==
    CASE v = "v0.0.1" -> [err |-> FALSE, val |-> <<0, 0, 1>>]
      [] v = "v0.0.2" -> [err |-> FALSE, val |-> <<0, 0, 2>>]
      [] v = "v0.0.10" -> [err |-> FALSE, val |-> <<0, 0, 10>>]
      [] v = "v0.1.0" -> [err |-> FALSE, val |-> <<0, 1, 0>>]
      [] OTHER -> [err |-> TRUE, val |-> <<0, 0, 0>>]

isIncremental(prev, next) ==
    \/ next[1] > prev[1]
    \/ next[1] = prev[1] /\ next[2] > prev[2]
    \/ next[1] = prev[1] /\ next[2] = prev[2] /\ next[3] > prev[3]

(***************************************************************************)
(* Repository state of the workflow service                                *)
(***************************************************************************)
VARIABLES
    metas,      \* workflow id -> [exists, LatestPublishedVersion]
    drafts,     \* workflow id -> NoDraft or the DraftInfo of the workflow
    versions,   \* workflow id -> sequence of VersionInfo, in creation order
    idgen,      \* number of IDs handed out by GenID
    lastCall    \* the last service call: its arguments, the state it saw, its result

draftVars == <<metas, drafts, versions, idgen, lastCall>>

WorkflowIDs == 1..MaxWorkflows

NoVersion == ""

NoDraft == [none |-> TRUE]

EntryID == "100001"
ExitID == "900001"

SaveCanvases ==
    { Canvas(<<Node(EntryID, NodeTypeEntry), Node(ExitID, NodeTypeExit)>>,
             <<Edge(EntryID, ExitID)>>, 0),
      Canvas(<<Node(EntryID, NodeTypeEntry), Node(ExitID, NodeTypeExit)>>,
             <<Edge(EntryID, ExitID)>>, 1),
      Canvas(<<Node(EntryID, NodeTypeEntry), LLMNode("1", <<>>), Node(ExitID, NodeTypeExit)>>,
             <<Edge(EntryID, "1"), Edge("1", ExitID)>>, 0),
      Canvas(<<Node(EntryID, NodeTypeEntry), Node(ExitID, NodeTypeExit)>>,
             <<Edge(EntryID, "7")>>, 0) }

\* canvases of unfinished drafts: without Entry, without Exit, without both, with
\* an Entry nested in a loop only, with a variable of no known type, and a complete one
PartialCanvases ==
    LET entry == WithData(Node(EntryID, NodeTypeEntry),
                          NodeData(<<Variable("query", "string")>>, <<>>))
        exit == WithData(Node(ExitID, NodeTypeExit),
                         NodeData(<<>>, <<Variable("answer", "string")>>))
        llm == WithData(LLMNode("1", <<>>),
                        NodeData(<<Variable("text", "string")>>, <<Variable("prompt", "string")>>))
    IN  { Canvas(<<llm, exit>>, <<Edge("1", ExitID)>>, 0),
          Canvas(<<entry, llm>>, <<Edge(EntryID, "1")>>, 0),
          Canvas(<<llm>>, <<>>, 0),
          Canvas(<<>>, <<>>, 0),
          Canvas(<<LoopNode("2", <<entry>>), exit>>, <<Edge("2", ExitID)>>, 0),
          Canvas(<<WithData(Node(EntryID, NodeTypeEntry),
                            NodeData(<<Variable("query", "unknown")>>, <<>>)), exit>>,
                 <<Edge(EntryID, ExitID)>>, 0),
          Canvas(<<entry, exit>>, <<Edge(EntryID, ExitID)>>, 0) }

SaveInputs == {MarshalString(c) : c \in SaveCanvases} \cup {NotJSON}

PartialInputs == {MarshalString(c) : c \in PartialCanvases}

\* repo.DraftV2: the current draft ("" as commit) or the draft with that commit
DraftV2(dr, id, commitID) ==
    IF dr[id] = NoDraft \/ (commitID # "" /\ dr[id].CommitID # commitID)
    THEN [err |-> TRUE, val |-> NoDraft]
    ELSE [err |-> FALSE, val |-> dr[id]]

\* variant: compares the raw canvas text instead of the compiled schemas
calculateTestRunSuccess_RawText(dr, c, wid) ==
    LET new == CanvasToWorkflowSchema(c)
        existedDraft == DraftV2(dr, wid, "")
    IN IF new.err \/ existedDraft.err THEN FALSE
       ELSE IF existedDraft.val.Canvas # MarshalString(c) THEN FALSE
       ELSE existedDraft.val.TestRunSuccess

\* variant: inherits the flag without comparing the schemas
calculateTestRunSuccess_NoCompare(dr, c, wid) ==
    LET new == CanvasToWorkflowSchema(c)
        existedDraft == DraftV2(dr, wid, "")
    IN IF new.err \/ existedDraft.err THEN FALSE
       ELSE existedDraft.val.TestRunSuccess

\* variant: compares the canvases as they were saved instead of their compiled schemas
calculateTestRunSuccess_Canvases(dr, c, wid) ==
    LET new == CanvasToWorkflowSchema(c)
        existedDraft == DraftV2(dr, wid, "")
    IN IF new.err \/ existedDraft.err THEN FALSE
       ELSE IF CanvasToWorkflowSchema(UnmarshalString(existedDraft.val.Canvas).val).err THEN FALSE
       ELSE IF UnmarshalString(existedDraft.val.Canvas).val # c THEN FALSE
       ELSE existedDraft.val.TestRunSuccess

\* variant: equal schemas count as a successful test run
calculateTestRunSuccess_EqualIsSuccess(dr, c, wid) ==
    LET new == CanvasToWorkflowSchema(c)
        existedDraft == DraftV2(dr, wid, "")
    IN IF new.err \/ existedDraft.err THEN FALSE
       ELSE LET existedSc ==
                  CanvasToWorkflowSchema(UnmarshalString(existedDraft.val.Canvas).val)
            IN ~existedSc.err /\ IsEqual(existedSc.sc, new.sc)

calculateTestRunSuccess(dr, c, wid) ==
    LET new == CanvasToWorkflowSchema(c)
        existedDraft == DraftV2(dr, wid, "")
    IN IF new.err THEN FALSE
       ELSE IF existedDraft.err THEN FALSE
       ELSE LET existedSc ==
                  CanvasToWorkflowSchema(UnmarshalString(existedDraft.val.Canvas).val)
            IN IF ~existedSc.err
               THEN IF ~IsEqual(existedSc.sc, new.sc) THEN FALSE
                    ELSE existedDraft.val.TestRunSuccess
               ELSE FALSE

\* vo.ParseVariable and convert.VariableToNamedTypeInfo, and
\* convert.BlockInputToNamedTypeInfo: the name and the type of a declared variable
NamedTypeInfo(v) ==
    IF v.Type = "unknown" THEN [err |-> TRUE, val |-> NoData]
    ELSE [err |-> FALSE, val |-> [Name |-> v.Name, Type |-> v.Type]]

\* slices.TransformWithErrorCheck of the variables of a node: their named type
\* infos, or nil and the first error
TransformWithErrorCheck(list) ==
    IF \E k \in 1..Len(list) : NamedTypeInfo(list[k]).err THEN [err |-> TRUE, val |-> NoData]
    ELSE [err |-> FALSE, val |-> [k \in 1..Len(list) |-> NamedTypeInfo(list[k]).val]]

\* "for _, node := range c.Nodes" from node k on: the indices of startNode and
\* endNode, 0 for nil
RECURSIVE ScanNodes(_, _, _, _)
ScanNodes(nodes, k, startNode, endNode) ==
    IF k > Len(nodes) \/ (startNode # 0 /\ endNode # 0)
    THEN [startNode |-> startNode, endNode |-> endNode]
    ELSE ScanNodes(nodes, k + 1,
                   IF nodes[k].Type = NodeTypeEntry THEN k ELSE startNode,
                   IF nodes[k].Type = NodeTypeExit THEN k ELSE endNode)

\* variant: with no Exit node the last node of the canvas is taken for it
endNodeOf_Last(c) ==
    IF ScanNodes(c.Nodes, 1, 0, 0).endNode # 0 THEN ScanNodes(c.Nodes, 1, 0, 0).endNode
    ELSE Len(c.Nodes)

endNodeOf(c) == ScanNodes(c.Nodes, 1, 0, 0).endNode

startNodeOf(c) == ScanNodes(c.Nodes, 1, 0, 0).startNode

\* both lists start empty; a nil node.Data panics, and the deferred recover
\* returns the lists as they are by then
extractInputsAndOutputsNamedInfoList(c) ==
    LET startNode == startNodeOf(c)
        endNode == endNodeOf(c)
        startPanics == startNode # 0 /\ DataOf(c.Nodes[startNode]) = NoData
        endPanics == endNode # 0 /\ DataOf(c.Nodes[endNode]) = NoData
        inputs == IF startNode = 0 \/ startPanics THEN <<>>
                  ELSE TransformWithErrorCheck(c.Nodes[startNode].Data.Outputs).val
        outputs == IF endNode = 0 \/ startPanics \/ endPanics THEN <<>>
                   ELSE TransformWithErrorCheck(c.Nodes[endNode].Data.InputParameters).val
    IN  [inputs |-> inputs, outputs |-> outputs]

\* variant: an ID generator that hands out one ID again and again
GenID_Same(gen) == 1

\* repo.GenID: an ID that was not handed out before, gen being the number handed out
GenID(gen) == gen + 1

\* the effect of Save on (drafts, idgen); genOK: whether repo.GenID succeeds
SaveEffect(dr, gen, id, schema, genOK) ==
    LET draft == UnmarshalString(schema)
        lists == extractInputsAndOutputsNamedInfoList(draft.val)
    IN
    IF draft.err THEN [err |-> TRUE, drafts |-> dr, idgen |-> gen]
    ELSE IF ~genOK THEN [err |-> TRUE, drafts |-> dr, idgen |-> gen]
    ELSE [err |-> FALSE,
          drafts |-> [dr EXCEPT ![id] =
              [Canvas |-> schema,
               TestRunSuccess |-> calculateTestRunSuccess(dr, draft.val, id),
               Modified |-> TRUE,
               InputParamsStr |-> MarshalString(lists.inputs),
               OutputParamsStr |-> MarshalString(lists.outputs),
               CommitID |-> FormatInt(GenID(gen))]],
          idgen |-> gen + 1]

\* id: the ID repo.CreateMeta gives the new workflow; metaOK: whether it succeeds.
\* The meta is stored before Save is called and stays when Save fails
Create(id, schema, metaOK, genOK) ==
    /\ ~metas[id].exists
    /\ idgen < MaxCommits
    /\ LET r == IF metaOK THEN SaveEffect(drafts, idgen, id, schema, genOK)
                ELSE [err |-> TRUE, drafts |-> drafts, idgen |-> idgen]
       IN /\ metas' = [metas EXCEPT ![id].exists = metaOK]
          /\ drafts' = r.drafts
          /\ idgen' = r.idgen
          /\ lastCall' = [op |-> "Create", id |-> id, err |-> r.err, genOK |-> genOK,
                          metaOK |-> metaOK, schema |-> schema, existedDraft |-> drafts[id]]
    /\ UNCHANGED versions

Save(id, schema, genOK) ==
    /\ metas[id].exists
    /\ idgen < MaxCommits
    /\ LET r == SaveEffect(drafts, idgen, id, schema, genOK)
       IN /\ drafts' = r.drafts
          /\ idgen' = r.idgen
          /\ lastCall' = [op |-> "Save", id |-> id, err |-> r.err, genOK |-> genOK,
                          schema |-> schema, existedDraft |-> drafts[id]]
    /\ UNCHANGED <<metas, versions>>

\* repo.UpdateWorkflowDraftTestRunSuccess: a test run of the draft succeeded
UpdateWorkflowDraftTestRunSuccess(id) ==
    /\ metas[id].exists
    /\ drafts[id] # NoDraft
    /\ ~drafts[id].TestRunSuccess
    /\ ~CanvasToWorkflowSchema(UnmarshalString(drafts[id].Canvas).val).err
    /\ drafts' = [drafts EXCEPT ![id].TestRunSuccess = TRUE]
    /\ lastCall' = [op |-> "TestRun", id |-> id, err |-> FALSE]
    /\ UNCHANGED <<metas, versions, idgen>>

\* repo.GetVersion, its "existed" result: a version of that name is stored for the workflow
VersionExisted_Never(vs, id, version) == FALSE

VersionExisted(vs, id, version) == \E k \in 1..Len(vs[id]) : vs[id][k].Version = version

\* repo.CreateVersion: stores the version and makes it the latest published one;
\* a (workflow, version) that is stored already is refused
CreateVersion(vs, ms, id, info) ==
    IF VersionExisted(vs, id, info.Version)
    THEN [err |-> TRUE, versions |-> vs, metas |-> ms]
    ELSE [err |-> FALSE,
          versions |-> [vs EXCEPT ![id] = Append(@, info)],
          metas |-> [ms EXCEPT ![id].LatestPublishedVersion = info.Version]]

(***************************************************************************)
(* Closure copy: CopyWorkflowFromAppToLibrary and DuplicateWorkflowsByAppID *)
(***************************************************************************)
VARIABLES
    app,                  \* draftWorkflows: source workflow id -> DraftInfo
    op,                   \* the running operation: [kind, root]
    pc,                   \* position inside the operation
    tree,                 \* the copiedWorkflow tree: a node is its path of ids from the root
    stack,                \* call stack of the recursive closure, the top first
    memo,                 \* hasPublishedWorkflows / hasCopiedWorkflows
    copiedWorkflowArray,  \* the workflows returned, in copy order
    repoCopies,           \* repo.CopyWorkflow calls: [Src, ID, Canvas, TargetAppID]
    repoVersions,         \* repo.CreateVersion calls: [ID, Version, Canvas, Refs]
    remaining,            \* DuplicateWorkflowsByAppID: drafts the range loop has not reached
    hasVerifiedWorkflowIDMap,
    vIssues,              \* ids of the workflows with validation issues, in report order
    copyGen,              \* the last workflow ID the repository generated
    copyResult            \* what the operation returned

copyVars == <<app, op, pc, tree, stack, memo, copiedWorkflowArray, repoCopies, repoVersions,
              remaining, hasVerifiedWorkflowIDMap, vIssues, copyGen, copyResult>>

workflowPublishVersion == "v0.0.1"

LibraryAppID == 0
TargetAppID == 7

DraftOf(c) == [Canvas |-> MarshalString(c)]

LeafCanvas ==
    Canvas(<<Node(EntryID, NodeTypeEntry), Node(ExitID, NodeTypeExit)>>, <<>>, 0)

\* two nodes of workflow 1 reference workflow 2
AppTwoNodes ==
    (1 :> DraftOf(Canvas(<<Node(EntryID, NodeTypeEntry), SubWorkflowNode("11", "2", ""),
                           SubWorkflowNode("12", "2", ""), Node(ExitID, NodeTypeExit)>>, <<>>, 0)))
    @@ (2 :> DraftOf(LeafCanvas))

\* diamond 1 -> 2, 1 -> 3 (as an LLM workflow tool), 2 -> 4, 3 -> 4
AppDiamond ==
    (1 :> DraftOf(Canvas(<<SubWorkflowNode("11", "2", ""),
                           LLMNode("12", <<WorkflowTool("3", "")>>)>>, <<>>, 0)))
    @@ (2 :> DraftOf(Canvas(<<SubWorkflowNode("21", "4", "")>>, <<>>, 0)))
    @@ (3 :> DraftOf(Canvas(<<SubWorkflowNode("31", "4", "")>>, <<>>, 0)))
    @@ (4 :> DraftOf(LeafCanvas))

\* references nested in blocks, a reference to a library workflow (9), and a
\* draft (3) that is referenced both directly and through 2
AppNested ==
    (1 :> DraftOf(Canvas(<<LoopNode("11", <<SubWorkflowNode("12", "2", ""),
                                            LoopNode("13", <<LLMNode("14",
                                                <<WorkflowTool("3", ""), WorkflowTool("9", "v0.0.3"),
                                                  WorkflowTool("2", "")>>)>>)>>),
                           SubWorkflowNode("15", "9", "v0.0.3")>>, <<>>, 0)))
    @@ (2 :> DraftOf(Canvas(<<LoopNode("21", <<SubWorkflowNode("22", "3", "")>>)>>, <<>>, 0)))
    @@ (3 :> DraftOf(LeafCanvas))

\* workflow 2 holds a node validateWorkflowTree reports
AppInvalid ==
    (1 :> DraftOf(Canvas(<<SubWorkflowNode("11", "2", ""), SubWorkflowNode("12", "3", "")>>, <<>>, 0)))
    @@ (2 :> DraftOf(Canvas(<<Node("21", NodeTypeDisallowed)>>, <<>>, 0)))
    @@ (3 :> DraftOf(LeafCanvas))

\* a sub-workflow node whose workflow ID is not a number
AppBadID ==
    (1 :> DraftOf(Canvas(<<SubWorkflowNode("11", "2", ""), SubWorkflowNode("12", "x", "")>>, <<>>, 0)))
    @@ (2 :> DraftOf(LeafCanvas))

\* the diamond with issues in the root, in workflow 3 and in workflow 4, which
\* is reached through 2 and through 3
AppIssues ==
    (1 :> DraftOf(Canvas(<<SubWorkflowNode("11", "2", ""),
                           LLMNode("12", <<WorkflowTool("3", "")>>),
                           Node("13", NodeTypeDisallowed)>>, <<>>, 0)))
    @@ (2 :> DraftOf(Canvas(<<SubWorkflowNode("21", "4", "")>>, <<>>, 0)))
    @@ (3 :> DraftOf(Canvas(<<SubWorkflowNode("31", "4", ""),
                              LoopNode("32", <<Node("33", NodeTypeDisallowed)>>)>>, <<>>, 0)))
    @@ (4 :> DraftOf(Canvas(<<Node("41", NodeTypeDisallowed)>>, <<>>, 0)))

Apps == {AppTwoNodes, AppDiamond, AppNested, AppInvalid, AppBadID, AppIssues}

\* workflows 1 and 2 call one another
AppMutual ==
    (1 :> DraftOf(Canvas(<<SubWorkflowNode("11", "2", "")>>, <<>>, 0)))
    @@ (2 :> DraftOf(Canvas(<<LLMNode("21", <<WorkflowTool("1", "")>>)>>, <<>>, 0)))

\* workflow 1 calls itself inside a loop
AppSelf ==
    (1 :> DraftOf(Canvas(<<LoopNode("11", <<SubWorkflowNode("12", "1", "")>>)>>, <<>>, 0)))

\* workflow 1 calls 2, 2 calls 3, and 3 calls 1
AppTriangle ==
    (1 :> DraftOf(Canvas(<<SubWorkflowNode("11", "2", "")>>, <<>>, 0)))
    @@ (2 :> DraftOf(Canvas(<<SubWorkflowNode("21", "3", "")>>, <<>>, 0)))
    @@ (3 :> DraftOf(Canvas(<<SubWorkflowNode("31", "1", "")>>, <<>>, 0)))

\* workflow 1 calls itself and holds a node validateWorkflowTree reports
AppSelfIssue ==
    (1 :> DraftOf(Canvas(<<SubWorkflowNode("11", "1", ""), Node("12", NodeTypeDisallowed)>>,
                         <<>>, 0)))

CyclicApps == {AppMutual, AppSelf, AppTriangle, AppSelfIssue}

\* the deepest nesting of calls of (validateAnd)buildWorkflowReference followed
MaxDepth == 6

\* validateWorkflowTree: whether the canvas has an issue
RECURSIVE HasIssue(_)
HasIssue(nodes) ==
    IF nodes = <<>> THEN FALSE
    ELSE \/ Head(nodes).Type = NodeTypeDisallowed
         \/ HasIssue(Head(nodes).Blocks)
         \/ HasIssue(Tail(nodes))

\* variant: reports no issue for any canvas
validateWorkflowTree_NoIssue(canvasSchema) == FALSE

validateWorkflowTree(canvasSchema) == HasIssue(UnmarshalString(canvasSchema).val.Nodes)

\* the work of one call of (validateAnd)buildWorkflowReference on nodes, in order:
\* a reference per sub-workflow node and per LLM workflow tool, then the node's Blocks
RECURSIVE ItemsOf(_)
ItemsOf(nodes) ==
    IF nodes = <<>> THEN <<>>
    ELSE LET n == Head(nodes) IN
         (IF n.Type = NodeTypeSubWorkflow
          THEN <<[kind |-> "ref", id |-> n.WorkflowID, nodes |-> <<>>]>> ELSE <<>>)
         \o (IF n.Type = NodeTypeLLM
             THEN [k \in 1..Len(n.WorkflowList) |->
                      [kind |-> "ref", id |-> n.WorkflowList[k].WorkflowID, nodes |-> <<>>]]
             ELSE <<>>)
         \o (IF Len(n.Blocks) > 0
             THEN <<[kind |-> "blocks", id |-> "", nodes |-> n.Blocks]>> ELSE <<>>)
         \o ItemsOf(Tail(nodes))

\* wf.refWfs of the tree node at path
Children(t, path) ==
    {q[Len(q)] : q \in {r \in t : Len(r) = Len(path) + 1 /\ SubSeq(r, 1, Len(path)) = path}}

Last(path) == path[Len(path)]

HasKey(m, k) == k \in DOMAIN m

\* variant: the memo table is never consulted
AlreadyMaterialized_Never(hasCopied, id) == FALSE

\* "if _, ok := hasPublishedWorkflows[wf.id]; !ok" and its twin on hasCopiedWorkflows
AlreadyMaterialized(hasCopied, id) == HasKey(hasCopied, id)

\* variant: the new ID is never written to the memo table
RecordMaterialized_Forget(hasCopied, id, cwfID, version) == hasCopied

\* "hasPublishedWorkflows[wf.id] = entity.IDVersionPair{...}" and its twin
RecordMaterialized(hasCopied, id, cwfID, version) ==
    (id :> [ID |-> cwfID, Version |-> version]) @@ hasCopied

\* the repository call of a materialization that fails, if any
RepoFailures == {"none", "CopyWorkflow", "CreateVersion"}

\* the rewrite of one LLM node's WorkflowList, in place: at an error the entries
\* before the failing one are rewritten already
\* variant: a tool that is not in relatedWorkflows loses its version
replaceWorkflowList_ClearsVersion(list, relatedWorkflows) ==
    [err |-> \E k \in DOMAIN list : ParseInt(list[k].WorkflowID).err,
     val |-> [k \in DOMAIN list |->
                IF ParseInt(list[k].WorkflowID).err THEN list[k]
                ELSE IF HasKey(relatedWorkflows, ParseInt(list[k].WorkflowID).val)
                THEN [WorkflowID |-> FormatInt(relatedWorkflows[ParseInt(list[k].WorkflowID).val].ID),
                      WorkflowVersion |-> relatedWorkflows[ParseInt(list[k].WorkflowID).val].Version]
                ELSE [list[k] EXCEPT !.WorkflowVersion = ""]]]

RECURSIVE replaceWorkflowList(_, _)
replaceWorkflowList(list, relatedWorkflows) ==
    IF list = <<>> THEN [err |-> FALSE, val |-> <<>>]
    ELSE LET wf == Head(list)
             workflowID == ParseInt(wf.WorkflowID)
             rest == replaceWorkflowList(Tail(list), relatedWorkflows)
         IN IF workflowID.err THEN [err |-> TRUE, val |-> list]
            ELSE IF HasKey(relatedWorkflows, workflowID.val)
            THEN [err |-> rest.err,
                  val |-> <<[WorkflowID |-> FormatInt(relatedWorkflows[workflowID.val].ID),
                             WorkflowVersion |-> relatedWorkflows[workflowID.val].Version]>>
                          \o rest.val]
            ELSE [err |-> rest.err, val |-> <<wf>> \o rest.val]

NodeTypePlugin == "Plugin"

\* variant: does not descend into the Blocks of a node
RECURSIVE replaceRelated_TopLevelOnly(_, _)
replaceRelated_TopLevelOnly(nodes, relatedWorkflows) ==
    IF nodes = <<>> THEN [err |-> FALSE, val |-> <<>>]
    ELSE LET node == Head(nodes)
             rest == replaceRelated_TopLevelOnly(Tail(nodes), relatedWorkflows)
             workflowID == ParseInt(node.WorkflowID)
             one == IF node.Type = NodeTypeSubWorkflow /\ ~workflowID.err
                       /\ HasKey(relatedWorkflows, workflowID.val)
                    THEN [node EXCEPT !.WorkflowID = FormatInt(relatedWorkflows[workflowID.val].ID),
                                      !.WorkflowVersion = relatedWorkflows[workflowID.val].Version]
                    ELSE IF node.Type = NodeTypeLLM
                    THEN [node EXCEPT !.WorkflowList = replaceWorkflowList(@, relatedWorkflows).val]
                    ELSE node
         IN [err |-> rest.err, val |-> <<one>> \o rest.val]

\* replaceRelatedWorkflowOrExternalResourceInWorkflowNodes with empty plugin,
\* knowledge and database maps: the nodes as rewritten, or an error
RECURSIVE replaceRelatedWorkflowOrExternalResourceInWorkflowNodes(_, _)
replaceRelatedWorkflowOrExternalResourceInWorkflowNodes(nodes, relatedWorkflows) ==
    IF nodes = <<>> THEN [err |-> FALSE, val |-> <<>>]
    ELSE LET node == Head(nodes)
             hasWorkflowRelated == Cardinality(DOMAIN relatedWorkflows) > 0
             workflowID == ParseInt(node.WorkflowID)
             tools == replaceWorkflowList(node.WorkflowList, relatedWorkflows)
             \* the node after the switch on its type; skip: the loop continues
             \* with the next node without looking at the Blocks
             switched ==
                 IF node.Type = NodeTypePlugin
                 THEN [err |-> FALSE, skip |-> TRUE, val |-> node]
                 ELSE IF node.Type = NodeTypeSubWorkflow
                 THEN IF ~hasWorkflowRelated
                      THEN [err |-> FALSE, skip |-> TRUE, val |-> node]
                      ELSE IF workflowID.err
                      THEN [err |-> TRUE, skip |-> FALSE, val |-> node]
                      ELSE IF HasKey(relatedWorkflows, workflowID.val)
                      THEN [err |-> FALSE, skip |-> FALSE,
                            val |-> [node EXCEPT
                                !.WorkflowID = FormatInt(relatedWorkflows[workflowID.val].ID),
                                !.WorkflowVersion = relatedWorkflows[workflowID.val].Version]]
                      ELSE [err |-> FALSE, skip |-> FALSE, val |-> node]
                 ELSE IF node.Type = NodeTypeLLM /\ hasWorkflowRelated
                 THEN [err |-> tools.err, skip |-> FALSE,
                       val |-> [node EXCEPT !.WorkflowList = tools.val]]
                 ELSE [err |-> FALSE, skip |-> FALSE, val |-> node]
             blocks == IF switched.skip \/ Len(node.Blocks) = 0
                       THEN [err |-> FALSE, val |-> node.Blocks]
                       ELSE replaceRelatedWorkflowOrExternalResourceInWorkflowNodes(
                                node.Blocks, relatedWorkflows)
             rest == replaceRelatedWorkflowOrExternalResourceInWorkflowNodes(
                         Tail(nodes), relatedWorkflows)
         \* the nodes are rewritten in place: at an error val holds what was
         \* rewritten before it
         IN IF switched.err THEN [err |-> TRUE, val |-> <<switched.val>> \o Tail(nodes)]
            ELSE IF blocks.err
            THEN [err |-> TRUE,
                  val |-> <<[switched.val EXCEPT !.Blocks = blocks.val]>> \o Tail(nodes)]
            ELSE [err |-> rest.err,
                  val |-> <<[switched.val EXCEPT !.Blocks = blocks.val]>> \o rest.val]

ReferTypeSubWorkflow == "SubWorkflow"
ReferTypeTool == "Tool"

WorkflowReferenceKey(referred, referring, type) ==
    [ReferredID |-> referred, ReferringID |-> referring, ReferType |-> type,
     ReferringBizType |-> "Workflow"]

\* the walk finds no nested nodes
BlocksOf_None(node) == <<>>

\* node.Blocks, the nodes nested in a container node
BlocksOf(node) == node.Blocks

RECURSIVE getRefFn(_, _)
getRefFn(nodes, referringID) ==
    IF nodes = <<>> THEN [err |-> FALSE, val |-> {}]
    ELSE LET node == Head(nodes)
             referredID == ParseInt(node.WorkflowID)
             toolIDs == [k \in 1..Len(node.WorkflowList) |-> ParseInt(node.WorkflowList[k].WorkflowID)]
             one ==
                 IF node.Type = NodeTypeSubWorkflow
                 THEN [err |-> referredID.err,
                       val |-> {WorkflowReferenceKey(referredID.val, referringID, ReferTypeSubWorkflow)}]
                 ELSE IF node.Type = NodeTypeLLM
                 THEN [err |-> \E k \in 1..Len(toolIDs) : toolIDs[k].err,
                       val |-> {WorkflowReferenceKey(toolIDs[k].val, referringID, ReferTypeTool) :
                                   k \in 1..Len(toolIDs)}]
                 ELSE IF Len(BlocksOf(node)) > 0
                 THEN getRefFn(BlocksOf(node), referringID)
                 ELSE [err |-> FALSE, val |-> {}]
             rest == getRefFn(Tail(nodes), referringID)
         IN IF one.err \/ rest.err THEN [err |-> TRUE, val |-> {}]
            ELSE [err |-> FALSE, val |-> one.val \cup rest.val]

canvasToRefs(referringID, canvasStr) ==
    LET canvas == UnmarshalString(canvasStr) IN
    IF canvas.err THEN [err |-> TRUE, val |-> {}]
    ELSE getRefFn(canvas.val.Nodes, referringID)

(***************************************************************************)
(* Publish: a draft made a version                                         *)
(***************************************************************************)
\* variant: accepts every version that parses, whatever the latest one is
PublishVersionCheck_Unordered(latest, version) ==
    IF latest # NoVersion
    THEN LET latestVersion == parseVersion(latest)
             currentVersion == parseVersion(version)
         IN /\ ~latestVersion.err
            /\ ~currentVersion.err
    ELSE TRUE

PublishVersionCheck(latest, version) ==
    IF latest # NoVersion
    THEN LET latestVersion == parseVersion(latest)
             currentVersion == parseVersion(version)
         IN /\ ~latestVersion.err
            /\ ~currentVersion.err
            /\ isIncremental(latestVersion.val, currentVersion.val)
    ELSE TRUE

\* variant: publishes the draft whether or not it passed a test run
PublishEffect_Ungated(policy) ==
    LET draft == DraftV2(drafts, policy.ID, policy.CommitID) IN
    IF ~metas[policy.ID].exists THEN [err |-> TRUE, versions |-> versions, metas |-> metas]
    ELSE IF ~PublishVersionCheck(metas[policy.ID].LatestPublishedVersion, policy.Version)
    THEN [err |-> TRUE, versions |-> versions, metas |-> metas]
    ELSE IF draft.err THEN [err |-> TRUE, versions |-> versions, metas |-> metas]
    ELSE IF canvasToRefs(policy.ID, draft.val.Canvas).err
    THEN [err |-> TRUE, versions |-> versions, metas |-> metas]
    ELSE CreateVersion(versions, metas, policy.ID,
                  [Version |-> policy.Version, Canvas |-> draft.val.Canvas,
                   InputParamsStr |-> draft.val.InputParamsStr,
                   OutputParamsStr |-> draft.val.OutputParamsStr,
                   CommitID |-> draft.val.CommitID, By |-> "Publish",
                   Refs |-> canvasToRefs(policy.ID, draft.val.Canvas).val])

PublishEffect(policy) ==
    LET draft == DraftV2(drafts, policy.ID, policy.CommitID) IN
    IF ~metas[policy.ID].exists THEN [err |-> TRUE, versions |-> versions, metas |-> metas]
    ELSE IF ~PublishVersionCheck(metas[policy.ID].LatestPublishedVersion, policy.Version)
    THEN [err |-> TRUE, versions |-> versions, metas |-> metas]
    ELSE IF draft.err THEN [err |-> TRUE, versions |-> versions, metas |-> metas]
    ELSE IF ~policy.Force /\ ~draft.val.TestRunSuccess
    THEN [err |-> TRUE, versions |-> versions, metas |-> metas]
    ELSE IF canvasToRefs(policy.ID, draft.val.Canvas).err
    THEN [err |-> TRUE, versions |-> versions, metas |-> metas]
    ELSE CreateVersion(versions, metas, policy.ID,
                  [Version |-> policy.Version, Canvas |-> draft.val.Canvas,
                   InputParamsStr |-> draft.val.InputParamsStr,
                   OutputParamsStr |-> draft.val.OutputParamsStr,
                   CommitID |-> draft.val.CommitID, By |-> "Publish",
                   Refs |-> canvasToRefs(policy.ID, draft.val.Canvas).val])

Publish(policy) ==
    /\ Len(versions[policy.ID]) < MaxVersions
    /\ LET r == PublishEffect(policy)
       IN /\ versions' = r.versions
          /\ metas' = r.metas
          /\ lastCall' = [op |-> "Publish", id |-> policy.ID, err |-> r.err,
                          policy |-> policy,
                          latest |-> metas[policy.ID].LatestPublishedVersion,
                          draft |-> drafts[policy.ID],
                          versionsBefore |-> versions[policy.ID]]
    /\ UNCHANGED <<drafts, idgen>>

PublishWorkflowIDs == {1}

PublishPolicies ==
    [ID : PublishWorkflowIDs, Version : VersionStrings,
     CommitID : {""} \cup {FormatInt(k) : k \in 1..1}, Force : BOOLEAN]

\* drafts to publish: one that calls nothing, one that calls the draft of
\* workflow 2 and version v0.0.1 of workflow 3, one whose sub-workflow node
\* names no workflow ID that parses
GateCanvases ==
    { Canvas(<<Node(EntryID, NodeTypeEntry), Node(ExitID, NodeTypeExit)>>,
             <<Edge(EntryID, ExitID)>>, 0),
      Canvas(<<Node(EntryID, NodeTypeEntry), SubWorkflowNode("11", "2", ""),
               SubWorkflowNode("12", "3", "v0.0.1"), Node(ExitID, NodeTypeExit)>>,
             <<Edge(EntryID, "11"), Edge("11", "12"), Edge("12", ExitID)>>, 0),
      Canvas(<<Node(EntryID, NodeTypeEntry), SubWorkflowNode("13", "x", ""),
               Node(ExitID, NodeTypeExit)>>,
             <<Edge(EntryID, "13"), Edge("13", ExitID)>>, 0) }

GateInputs == {MarshalString(c) : c \in GateCanvases}

GatePolicies ==
    [ID : PublishWorkflowIDs, Version : {"v0.0.2", "v0.1.0"},
     CommitID : {"", FormatInt(1), FormatInt(2)}, Force : BOOLEAN]

EmptyMap == [k \in {} |-> 0]

NoResult == [err |-> FALSE, returned |-> FALSE, ValidateIssues |-> <<>>,
             WorkflowIDVersionMap |-> EmptyMap, CopiedWorkflows |-> <<>>]

RootFrame(workflowID) ==
    [wf |-> <<workflowID>>,
     items |-> ItemsOf(UnmarshalString(app[workflowID].Canvas).val.Nodes)]

\* the operation returns err: nothing more is done
ReturnError ==
    /\ pc' = "done"
    /\ stack' = <<>>
    /\ copyResult' = [NoResult EXCEPT !.err = TRUE, !.returned = TRUE]

CopyWorkflowFromAppToLibrary(workflowID) ==
    /\ pc = "idle"
    /\ workflowID \in DOMAIN app
    /\ op' = [kind |-> "copy", root |-> workflowID]
    /\ vIssues' = IF validateWorkflowTree(app[workflowID].Canvas) THEN <<workflowID>> ELSE <<>>
    /\ tree' = {<<workflowID>>}
    /\ stack' = <<RootFrame(workflowID)>>
    /\ pc' = "build"
    /\ UNCHANGED <<app, memo, copiedWorkflowArray, repoCopies, repoVersions, remaining,
                   hasVerifiedWorkflowIDMap, copyGen, copyResult>>

DuplicateWorkflowsByAppID ==
    /\ pc = "idle"
    /\ op' = [kind |-> "dup", root |-> 0]
    /\ remaining' = DOMAIN app
    /\ pc' = "range"
    /\ UNCHANGED <<app, tree, stack, memo, copiedWorkflowArray, repoCopies, repoVersions,
                   hasVerifiedWorkflowIDMap, vIssues, copyGen, copyResult>>

\* one iteration of "for workflowID, draftVersion := range draftWorkflows"
duplicateWorkflowProcess ==
    /\ pc = "range"
    /\ \E workflowID \in remaining :
          /\ remaining' = remaining \ {workflowID}
          /\ IF AlreadyMaterialized(memo, workflowID)
             THEN UNCHANGED <<op, tree, stack, pc>>
             ELSE /\ op' = [op EXCEPT !.root = workflowID]
                  /\ tree' = {<<workflowID>>}
                  /\ stack' = <<RootFrame(workflowID)>>
                  /\ pc' = "build"
    /\ UNCHANGED <<app, memo, copiedWorkflowArray, repoCopies, repoVersions,
                   hasVerifiedWorkflowIDMap, vIssues, copyGen, copyResult>>

\* the loop is over: CopyTemplateConversationByAppID, then the return
DuplicateReturn(conversationsOK) ==
    /\ pc = "range"
    /\ remaining = {}
    /\ pc' = "done"
    /\ copyResult' = IF conversationsOK
                     THEN [NoResult EXCEPT !.returned = TRUE,
                                          !.CopiedWorkflows = copiedWorkflowArray]
                     ELSE [NoResult EXCEPT !.returned = TRUE, !.err = TRUE]
    /\ UNCHANGED <<app, op, tree, stack, memo, copiedWorkflowArray, repoCopies, repoVersions,
                   remaining, hasVerifiedWorkflowIDMap, vIssues, copyGen>>

\* (validateAnd)buildWorkflowReference reaches the end of its nodes
buildWorkflowReference_Return ==
    /\ pc = "build"
    /\ stack[1].items = <<>>
    /\ IF Len(stack) > 1
       THEN /\ stack' = Tail(stack)
            /\ UNCHANGED <<pc, copyResult>>
       ELSE IF op.kind = "copy" /\ Len(vIssues) > 0
       THEN /\ pc' = "done"
            /\ stack' = <<>>
            /\ copyResult' = [NoResult EXCEPT !.returned = TRUE, !.ValidateIssues = vIssues]
       ELSE /\ pc' = "copy"
            /\ stack' = <<[wf |-> <<op.root>>, todo |-> Children(tree, <<op.root>>)]>>
            /\ UNCHANGED copyResult
    /\ UNCHANGED <<app, op, tree, memo, copiedWorkflowArray, repoCopies, repoVersions,
                   remaining, hasVerifiedWorkflowIDMap, vIssues, copyGen>>

\* (validateAnd)buildWorkflowReference descends into node.Blocks with the same wf
buildWorkflowReference_Blocks ==
    /\ pc = "build"
    /\ stack[1].items # <<>>
    /\ Head(stack[1].items).kind = "blocks"
    /\ stack' = <<[wf |-> stack[1].wf, items |-> ItemsOf(Head(stack[1].items).nodes)],
                  [stack[1] EXCEPT !.items = Tail(@)]>> \o Tail(stack)
    /\ UNCHANGED <<app, op, pc, tree, memo, copiedWorkflowArray, repoCopies, repoVersions,
                   remaining, hasVerifiedWorkflowIDMap, vIssues, copyGen, copyResult>>

\* (validateAnd)buildWorkflowReference looks at a sub-workflow node or an LLM workflow tool
buildWorkflowReference_Ref ==
    /\ pc = "build"
    /\ stack[1].items # <<>>
    /\ Head(stack[1].items).kind = "ref"
    /\ LET wf == stack[1].wf
           wfID == ParseInt(Head(stack[1].items).id)
           popped == <<[stack[1] EXCEPT !.items = Tail(@)]>> \o Tail(stack)
       IN IF wfID.err
          THEN /\ ReturnError
               /\ UNCHANGED <<tree, hasVerifiedWorkflowIDMap, vIssues>>
          ELSE IF ~HasKey(app, wfID.val) \/ wfID.val \in Children(tree, wf)
          THEN /\ stack' = popped
               /\ UNCHANGED <<pc, copyResult, tree, hasVerifiedWorkflowIDMap, vIssues>>
          ELSE /\ Len(wf) < MaxDepth
               /\ IF op.kind = "copy" /\ wfID.val \notin hasVerifiedWorkflowIDMap
                  THEN /\ vIssues' = IF validateWorkflowTree(app[wfID.val].Canvas)
                                     THEN Append(vIssues, wfID.val) ELSE vIssues
                       /\ hasVerifiedWorkflowIDMap' = hasVerifiedWorkflowIDMap \cup {wfID.val}
                  ELSE UNCHANGED <<vIssues, hasVerifiedWorkflowIDMap>>
               /\ tree' = tree \cup {Append(wf, wfID.val)}
               /\ stack' = <<[wf |-> Append(wf, wfID.val),
                              items |-> ItemsOf(UnmarshalString(app[wfID.val].Canvas).val.Nodes)]>>
                           \o popped
               /\ UNCHANGED <<pc, copyResult>>
    /\ UNCHANGED <<app, op, memo, copiedWorkflowArray, repoCopies, repoVersions,
                   remaining, copyGen>>

\* variant: the workflow is materialized before the workflows it refers to
RefWfsDone_PreOrder(frame) == TRUE

\* the loop over wf.refWfs is over: every recursive call has returned
RefWfsDone(frame) == frame.todo = {}

\* "for _, refWorkflow := range wf.refWfs": the recursive call for one of them
processRefWfs ==
    /\ pc = "copy"
    /\ stack[1].todo # {}
    /\ \E refWorkflow \in stack[1].todo :
          stack' = <<[wf |-> Append(stack[1].wf, refWorkflow),
                      todo |-> Children(tree, Append(stack[1].wf, refWorkflow))],
                     [stack[1] EXCEPT !.todo = @ \ {refWorkflow}]>> \o Tail(stack)
    /\ UNCHANGED <<app, op, pc, tree, memo, copiedWorkflowArray, repoCopies, repoVersions,
                   remaining, hasVerifiedWorkflowIDMap, vIssues, copyGen, copyResult>>

\* the canvas of the workflow on top of the stack, rewritten with the memo
ModifiedCanvas(id) ==
    LET canvas == UnmarshalString(app[id].Canvas)
        nodes == replaceRelatedWorkflowOrExternalResourceInWorkflowNodes(canvas.val.Nodes, memo)
    IN [err |-> canvas.err \/ nodes.err,
        val |-> MarshalString([canvas.val EXCEPT !.Nodes = nodes.val])]

\* copyAndPublishWorkflowProcess after the loop over wf.refWfs
copyAndPublishWorkflowProcess(fail) ==
    /\ pc = "copy"
    /\ op.kind = "copy"
    /\ RefWfsDone(stack[1])
    /\ LET id == Last(stack[1].wf)
           modified == ModifiedCanvas(id)
           cwfID == copyGen + 1
           wfRefs == canvasToRefs(cwfID, modified.val)
           done == Len(stack) = 1
           newMemo == RecordMaterialized(memo, id, cwfID, workflowPublishVersion)
       IN IF AlreadyMaterialized(memo, id)
          THEN /\ stack' = Tail(stack)
               /\ pc' = IF done THEN "done" ELSE pc
               /\ copyResult' = IF done
                                THEN [NoResult EXCEPT !.returned = TRUE,
                                          !.WorkflowIDVersionMap = memo,
                                          !.CopiedWorkflows = copiedWorkflowArray]
                                ELSE copyResult
               /\ UNCHANGED <<memo, copiedWorkflowArray, repoCopies, repoVersions, copyGen>>
          ELSE IF modified.err \/ fail = "CopyWorkflow"
          THEN /\ ReturnError
               /\ UNCHANGED <<memo, copiedWorkflowArray, repoCopies, repoVersions, copyGen>>
          ELSE IF wfRefs.err \/ fail = "CreateVersion"
          THEN /\ ReturnError
               /\ repoCopies' = Append(repoCopies, [Src |-> id, ID |-> cwfID,
                                    Canvas |-> modified.val, TargetAppID |-> LibraryAppID])
               /\ copyGen' = cwfID
               /\ UNCHANGED <<memo, copiedWorkflowArray, repoVersions>>
          ELSE /\ repoCopies' = Append(repoCopies, [Src |-> id, ID |-> cwfID,
                                    Canvas |-> modified.val, TargetAppID |-> LibraryAppID])
               /\ copyGen' = cwfID
               /\ repoVersions' = Append(repoVersions, [ID |-> cwfID,
                                    Version |-> workflowPublishVersion,
                                    Canvas |-> modified.val, Refs |-> wfRefs.val])
               /\ copiedWorkflowArray' = Append(copiedWorkflowArray, cwfID)
               /\ memo' = newMemo
               /\ stack' = Tail(stack)
               /\ pc' = IF done THEN "done" ELSE pc
               /\ copyResult' = IF done
                                THEN [NoResult EXCEPT !.returned = TRUE,
                                          !.WorkflowIDVersionMap = newMemo,
                                          !.CopiedWorkflows = Append(copiedWorkflowArray, cwfID)]
                                ELSE copyResult
    /\ UNCHANGED <<app, op, tree, remaining, hasVerifiedWorkflowIDMap, vIssues>>

\* duplicateWorkflow after the loop over wf.refWfs
duplicateWorkflow(fail) ==
    /\ pc = "copy"
    /\ op.kind = "dup"
    /\ RefWfsDone(stack[1])
    /\ LET id == Last(stack[1].wf)
           modified == ModifiedCanvas(id)
           cwfID == copyGen + 1
           done == Len(stack) = 1
       IN IF AlreadyMaterialized(memo, id)
          THEN /\ stack' = Tail(stack)
               /\ pc' = IF done THEN "range" ELSE pc
               /\ UNCHANGED <<memo, copiedWorkflowArray, repoCopies, copyGen, copyResult>>
          ELSE IF modified.err \/ fail = "CopyWorkflow"
          THEN /\ ReturnError
               /\ UNCHANGED <<memo, copiedWorkflowArray, repoCopies, copyGen>>
          ELSE /\ repoCopies' = Append(repoCopies, [Src |-> id, ID |-> cwfID,
                                    Canvas |-> modified.val, TargetAppID |-> TargetAppID])
               /\ copyGen' = cwfID
               /\ copiedWorkflowArray' = Append(copiedWorkflowArray, cwfID)
               /\ memo' = RecordMaterialized(memo, id, cwfID, "")
               /\ stack' = Tail(stack)
               /\ pc' = IF done THEN "range" ELSE pc
               /\ UNCHANGED copyResult
    /\ UNCHANGED <<app, op, tree, repoVersions, remaining, hasVerifiedWorkflowIDMap, vIssues>>

CopyInit ==
    /\ app \in Apps
    /\ op = [kind |-> "none", root |-> 0]
    /\ pc = "idle"
    /\ tree = {}
    /\ stack = <<>>
    /\ memo = EmptyMap
    /\ copiedWorkflowArray = <<>>
    /\ repoCopies = <<>>
    /\ repoVersions = <<>>
    /\ remaining = {}
    /\ hasVerifiedWorkflowIDMap = {}
    /\ vIssues = <<>>
    /\ copyGen = 10
    /\ copyResult = NoResult

\* the same with an app whose drafts call one another in a cycle
CycleInit ==
    /\ app \in CyclicApps \cup {AppTwoNodes, AppIssues}
    /\ op = [kind |-> "none", root |-> 0]
    /\ pc = "idle"
    /\ tree = {}
    /\ stack = <<>>
    /\ memo = EmptyMap
    /\ copiedWorkflowArray = <<>>
    /\ repoCopies = <<>>
    /\ repoVersions = <<>>
    /\ remaining = {}
    /\ hasVerifiedWorkflowIDMap = {}
    /\ vIssues = <<>>
    /\ copyGen = 10
    /\ copyResult = NoResult

(***************************************************************************)
(* Running a workflow with a QuestionAnswer node: suspension and resume    *)
(***************************************************************************)
VARIABLES
    fixture,        \* the workflow schema, the input record and the user's answer of the test
    store,          \* the checkpoint store: checkpoint ID -> checkpoint
    run,            \* the invocation in progress
    execCount,      \* per checkpoint ID and node key: how often the node was executed
    invokeResult,   \* what the last Invoke returned
    lastInvoke,     \* the arguments of the last Invoke and the checkpoint it found
    finished        \* the runs that returned an output: were they suspended, and the output

runVars == <<fixture, store, run, execCount, invokeResult, lastInvoke, finished>>

MaxRounds == 3

EntryNodeKey == "100001"
ExitNodeKey == "900001"
QAKey == "qa_node_key"
LambdaKey == "lambda"

NodeTypeQuestionAnswer == "QuestionAnswer"
NodeTypeLambda == "Lambda"

AnswerDirectly == "directly"
AnswerByChoices == "by_choices"
FixedChoicesType == "fixed"
DynamicChoicesType == "dynamic"
DynamicChoicesKey == "dynamicOption"

UserResponseKey == "USER_RESPONSE"
OptionIDKey == "optionId"
OptionContentKey == "optionContent"

\* a field of a node's input taken from a field of another node's output
FieldInfo(path, fromNodeKey, fromPath) ==
    [Path |-> path, FromNodeKey |-> fromNodeKey, FromPath |-> fromPath]

Connection(from, to, port) == [FromNode |-> from, ToNode |-> to, FromPort |-> port]

NoConfig ==
    [QuestionTpl |-> "", AnswerType |-> "", ChoiceType |-> "", FixedChoices |-> <<>>,
     ExtractFromAnswer |-> FALSE, MaxAnswerCount |-> 0]

NodeSchema(key, type, configs, inputSources) ==
    [Key |-> key, Type |-> type, Configs |-> configs, InputSources |-> inputSources]

\* the schema of "answer directly, no structured output"
DirectSchema ==
    [Nodes |-> <<
        NodeSchema(EntryNodeKey, NodeTypeEntry, NoConfig, <<>>),
        NodeSchema(QAKey, NodeTypeQuestionAnswer,
                   [NoConfig EXCEPT !.QuestionTpl = "input", !.AnswerType = AnswerDirectly],
                   <<FieldInfo("input", EntryNodeKey, "query")>>),
        NodeSchema(ExitNodeKey, NodeTypeExit, NoConfig,
                   <<FieldInfo("answer", QAKey, UserResponseKey)>>)>>,
     Connections |-> {Connection(EntryNodeKey, QAKey, ""), Connection(QAKey, ExitNodeKey, "")}]

\* the schema of "answer with fixed choices"
FixedChoicesSchema ==
    [Nodes |-> <<
        NodeSchema(EntryNodeKey, NodeTypeEntry, NoConfig, <<>>),
        NodeSchema(QAKey, NodeTypeQuestionAnswer,
                   [NoConfig EXCEPT !.QuestionTpl = "input", !.AnswerType = AnswerByChoices,
                                    !.ChoiceType = FixedChoicesType,
                                    !.FixedChoices = <<"choice1", "choice2">>],
                   <<FieldInfo("input", EntryNodeKey, "query"),
                     FieldInfo("choice1", EntryNodeKey, "choice1"),
                     FieldInfo("choice2", EntryNodeKey, "choice2")>>),
        NodeSchema(ExitNodeKey, NodeTypeExit, NoConfig,
                   <<FieldInfo("option_id", QAKey, OptionIDKey),
                     FieldInfo("option_content", QAKey, OptionContentKey)>>),
        NodeSchema(LambdaKey, NodeTypeLambda, NoConfig, <<>>)>>,
     Connections |-> {Connection(EntryNodeKey, QAKey, ""),
                      Connection(QAKey, ExitNodeKey, "branch_0"),
                      Connection(QAKey, ExitNodeKey, "branch_1"),
                      Connection(QAKey, LambdaKey, "default"),
                      Connection(LambdaKey, ExitNodeKey, "")}]

RunSchemas == {DirectSchema, FixedChoicesSchema}

\* the schema of "answer with dynamic choices"
DynamicChoicesSchema ==
    [Nodes |-> <<
        NodeSchema(EntryNodeKey, NodeTypeEntry, NoConfig, <<>>),
        NodeSchema(QAKey, NodeTypeQuestionAnswer,
                   [NoConfig EXCEPT !.QuestionTpl = "input", !.AnswerType = AnswerByChoices,
                                    !.ChoiceType = DynamicChoicesType],
                   <<FieldInfo("input", EntryNodeKey, "query"),
                     FieldInfo(DynamicChoicesKey, EntryNodeKey, "choices")>>),
        NodeSchema(ExitNodeKey, NodeTypeExit, NoConfig,
                   <<FieldInfo("option_id", QAKey, OptionIDKey),
                     FieldInfo("option_content", QAKey, OptionContentKey)>>),
        NodeSchema(LambdaKey, NodeTypeLambda, NoConfig, <<>>)>>,
     Connections |-> {Connection(EntryNodeKey, QAKey, ""),
                      Connection(QAKey, ExitNodeKey, "branch_0"),
                      Connection(QAKey, ExitNodeKey, "branch_1"),
                      Connection(QAKey, ExitNodeKey, "branch_2"),
                      Connection(LambdaKey, ExitNodeKey, ""),
                      Connection(QAKey, LambdaKey, "default")}]

\* the schema of "answer directly, extract structured output" with MaxAnswerCount n
ExtractSchema(n) ==
    [Nodes |-> <<
        NodeSchema(EntryNodeKey, NodeTypeEntry, NoConfig, <<>>),
        NodeSchema(QAKey, NodeTypeQuestionAnswer,
                   [NoConfig EXCEPT !.QuestionTpl = "input", !.AnswerType = AnswerDirectly,
                                    !.ExtractFromAnswer = TRUE, !.MaxAnswerCount = n],
                   <<FieldInfo("input", EntryNodeKey, "query"),
                     FieldInfo("prompt", EntryNodeKey, "prompt")>>),
        NodeSchema(ExitNodeKey, NodeTypeExit, NoConfig,
                   <<FieldInfo("name", QAKey, "name"),
                     FieldInfo("age", QAKey, "age"),
                     FieldInfo(UserResponseKey, QAKey, UserResponseKey)>>)>>,
     Connections |-> {Connection(EntryNodeKey, QAKey, ""), Connection(QAKey, ExitNodeKey, "")}]

MaxAnswerCount == 2

\* the lists of choices the Entry node passes on
DynamicChoices ==
    {<<"beijing", "shanghai">>, <<"shanghai", "beijing">>, <<"shanghai", "guangzhou", "beijing">>}

\* the workflows with dynamic choices and with extraction, their inputs and answers
QAFixtures ==
    [ws : {DynamicChoicesSchema},
     in : {[query |-> "what's the capital city of China?", choices |-> c] : c \in DynamicChoices},
     answer : {"beijing", "shanghai", "tokyo"}]
    \cup
    [ws : {ExtractSchema(n) : n \in 1..MaxAnswerCount},
     in : {[query |-> "what's your name?", prompt |-> "You are a helpful assistant."]},
     answer : {"my name is eino"}]

\* what the chat model of the test replies to the extraction prompt: one more
\* question, or the fields
ChatReplies ==
    {[question |-> "what's your age?", fields |-> [nil |-> TRUE]],
     [question |-> "", fields |-> ("name" :> "eino") @@ ("age" :> 1)]}

RunInputs ==
    {[query |-> q, choice1 |-> c[1], choice2 |-> c[2]] :
        q \in {"what's your name?", "what's would you make in Coze?"},
        c \in {<<"make agent", "make workflow">>, <<"make workflow", "make agent">>}}

Answers == {"my name is eino", "make agent", "I would make all kinds of stuff"}

CheckPointIDs == {"cp1", "cp2"}

NoInput == [nil |-> TRUE]
NoCheckpoint == [none |-> TRUE]
NoError == [kind |-> "none"]
NoOutput == [nil |-> TRUE]

\* state modifiers: the ResumeData entries the caller sets
StateModifiers ==
    {EmptyMap,
     QAKey :> fixture.answer,
     LambdaKey :> fixture.answer,
     (QAKey :> fixture.answer) @@ (LambdaKey :> "make workflow")}

\* the same, and the answer to the second question
QAStateModifiers == StateModifiers \cup {QAKey :> "my age is 1 years old"}

\* ---- the execution engine ----

NodeOf(ws, key) == ws.Nodes[CHOOSE k \in 1..Len(ws.Nodes) : ws.Nodes[k].Key = key]

\* the node a connection from key leads to, through the selected port
Successor(ws, key, port) ==
    (CHOOSE c \in ws.Connections : c.FromNode = key /\ c.FromPort = port).ToNode

\* what a node keeps in IntermediateResult: the pending questions and its output
NodeResult(questions, output) == [questions |-> questions, answers |-> <<>>, output |-> output]

\* a map lookup: the zero value when the key is missing
Field(m, k, zero) == IF k \in DOMAIN m THEN m[k] ELSE zero

\* the input record of a node, resolved from the results of the nodes it refers to
ResolveInputs(ns, IntermediateResult) ==
    [p \in {ns.InputSources[k].Path : k \in 1..Len(ns.InputSources)} |->
        LET src == ns.InputSources[CHOOSE k \in 1..Len(ns.InputSources) :
                                       ns.InputSources[k].Path = p]
        IN Field(Field(IntermediateResult, src.FromNodeKey, NodeResult(<<>>, EmptyMap)).output,
                 src.FromPath, "")]

\* a template "{{name}}" rendered on an input record
Render(tpl, in) == Field(in, tpl, "")

\* variant: the choices in the reverse of the configured order
RenderChoices_Reversed(conf, in) ==
    [k \in 1..Len(conf.FixedChoices) |->
        Render(conf.FixedChoices[Len(conf.FixedChoices) + 1 - k], in)]

\* the choices a node offers, in the order of its configuration
RenderChoices(conf, in) ==
    IF conf.ChoiceType = DynamicChoicesType THEN Field(in, DynamicChoicesKey, <<>>)
    ELSE [k \in 1..Len(conf.FixedChoices) |-> Render(conf.FixedChoices[k], in)]

\* the pending interaction of a QuestionAnswer node
Question(conf, in) ==
    IF conf.AnswerType = AnswerByChoices
    THEN [question |-> Render(conf.QuestionTpl, in), choices |-> RenderChoices(conf, in)]
    ELSE [question |-> Render(conf.QuestionTpl, in), choices |-> <<>>]

OptionLetters == <<"A", "B", "C">>
BranchPorts == <<"branch_0", "branch_1", "branch_2">>

\* variant: an answer that arrives on resume is lost, the node answers with the empty text
Answered_Lost(conf, offered, answer) ==
    IF conf.AnswerType = AnswerDirectly
    THEN [output |-> (UserResponseKey :> ""), port |-> ""]
    ELSE [output |-> (OptionIDKey :> "other") @@ (OptionContentKey :> ""), port |-> "default"]

\* variant: the letter of a choice is counted from the end of the list
Answered_FromEnd(conf, offered, answer) ==
    IF conf.AnswerType = AnswerDirectly
    THEN [output |-> (UserResponseKey :> answer), port |-> ""]
    ELSE IF \E k \in 1..Len(offered) : offered[k] = answer
    THEN LET k == CHOOSE i \in 1..Len(offered) : offered[i] = answer
         IN [output |-> (OptionIDKey :> OptionLetters[Len(offered) + 1 - k])
                            @@ (OptionContentKey :> answer),
             port |-> BranchPorts[k]]
    ELSE [output |-> (OptionIDKey :> "other") @@ (OptionContentKey :> answer),
          port |-> "default"]

\* variant: a text that is none of the offered choices is taken for the first choice
Answered_FirstChoice(conf, offered, answer) ==
    IF conf.AnswerType = AnswerDirectly
    THEN [output |-> (UserResponseKey :> answer), port |-> ""]
    ELSE LET k == IF \E i \in 1..Len(offered) : offered[i] = answer
                  THEN CHOOSE i \in 1..Len(offered) : offered[i] = answer
                  ELSE 1
         IN [output |-> (OptionIDKey :> OptionLetters[k]) @@ (OptionContentKey :> offered[k]),
             port |-> BranchPorts[k]]

\* the output and the port of a QuestionAnswer node that got its answer
Answered(conf, offered, answer) ==
    IF conf.AnswerType = AnswerDirectly
    THEN [output |-> (UserResponseKey :> answer), port |-> ""]
    ELSE IF \E k \in 1..Len(offered) : offered[k] = answer
    THEN LET k == CHOOSE i \in 1..Len(offered) :
                      offered[i] = answer /\ \A j \in 1..(i - 1) : offered[j] # answer
         IN [output |-> (OptionIDKey :> OptionLetters[k]) @@ (OptionContentKey :> answer),
             port |-> BranchPorts[k]]
    ELSE [output |-> (OptionIDKey :> "other") @@ (OptionContentKey :> answer),
          port |-> "default"]

\* variant: there is always one more round
RoundsLeft_Always(conf, answers) == TRUE

\* the answers given so far are fewer than MaxAnswerCount
RoundsLeft(conf, answers) == Len(answers) < conf.MaxAnswerCount

\* the extraction step after an answer: the chat model is shown the questions and
\* the answers; when it replies with fields the node returns them with the last
\* answer, when it replies with one more question the node suspends again, if
\* the answers given leave a round
extractFromAnswer(conf, reply, answers) ==
    IF reply.question = ""
    THEN [kind |-> "output",
          output |-> reply.fields @@ (UserResponseKey :> answers[Len(answers)])]
    ELSE IF RoundsLeft(conf, answers)
    THEN [kind |-> "interrupt", output |-> EmptyMap]
    ELSE [kind |-> "error", output |-> EmptyMap]

\* the typed accessor of interrupt errors
ExtractInterruptInfo(err) ==
    IF err.kind = "interrupt" THEN [existed |-> TRUE, info |-> err.info]
    ELSE [existed |-> FALSE, info |-> NoOutput]

\* variant: every entry the state modifier sets reaches the State
AcceptResumeData_All(stateModifier, suspended) == stateModifier

\* the resume data the engine lets through: that of the suspended node only
AcceptResumeData(stateModifier, suspended) ==
    [k \in DOMAIN stateModifier \cap {suspended} |-> stateModifier[k]]

\* variant: a resumed run starts again at the Entry node
ResumePoint_Entry(checkpoint) == EntryNodeKey

\* where a run loaded from a checkpoint continues
ResumePoint(checkpoint) == checkpoint.suspended

Counted(cp, key) == [execCount EXCEPT ![cp][key] = @ + 1]

NodeKeys == {EntryNodeKey, QAKey, ExitNodeKey, LambdaKey}

NewState == [IntermediateResult |-> EmptyMap, ResumeData |-> EmptyMap]

NoRun == [status |-> "idle", checkPointID |-> "", in |-> NoInput, State |-> NewState,
          next |-> "", wasSuspended |-> FALSE]

Returned(out, err) == [out |-> out, err |-> err]

\* Invoke with an input starts a run on a fresh State; Invoke with no input loads
\* the checkpoint, applies the state modifier and continues the suspended run
Invoke(in, checkPointID, stateModifier) ==
    /\ run.status # "running"
    /\ lastInvoke' = [in |-> in, checkPointID |-> checkPointID,
                      stateModifier |-> stateModifier, found |-> store[checkPointID],
                      known |-> FALSE]
    /\ IF in # NoInput
       THEN /\ run' = [NoRun EXCEPT !.status = "running", !.checkPointID = checkPointID,
                                    !.in = in, !.next = EntryNodeKey]
            /\ execCount' = [execCount EXCEPT ![checkPointID] = [k \in NodeKeys |-> 0]]
            /\ UNCHANGED invokeResult
       ELSE IF store[checkPointID] = NoCheckpoint
       THEN /\ run' = [NoRun EXCEPT !.status = "failed", !.checkPointID = checkPointID]
            /\ invokeResult' = Returned(NoOutput, [kind |-> "error", info |-> NoOutput])
            /\ UNCHANGED execCount
       ELSE LET checkpoint == store[checkPointID] IN
            /\ execCount[checkPointID][checkpoint.suspended] < MaxRounds
            /\ run' = [NoRun EXCEPT
                          !.status = "running", !.checkPointID = checkPointID,
                          !.State = [checkpoint.State EXCEPT !.ResumeData =
                                        AcceptResumeData(stateModifier, checkpoint.suspended) @@ @],
                          !.next = ResumePoint(checkpoint),
                          !.wasSuspended = TRUE]
            /\ UNCHANGED <<execCount, invokeResult>>
    /\ UNCHANGED <<fixture, store, finished>>

\* the reference run of resume transparency: a run on a fresh State in which the
\* answer of the QuestionAnswer node is known from the start
InvokeKnowingAnswer(in, checkPointID, answer) ==
    /\ run.status # "running"
    /\ lastInvoke' = [in |-> in, checkPointID |-> checkPointID, stateModifier |-> EmptyMap,
                      found |-> store[checkPointID], known |-> TRUE]
    /\ run' = [NoRun EXCEPT !.status = "running", !.checkPointID = checkPointID, !.in = in,
                            !.State = [NewState EXCEPT !.ResumeData = QAKey :> answer],
                            !.next = EntryNodeKey]
    /\ execCount' = [execCount EXCEPT ![checkPointID] = [k \in NodeKeys |-> 0]]
    /\ UNCHANGED <<fixture, store, invokeResult, finished>>

Running(type) == run.status = "running" /\ NodeOf(fixture.ws, run.next).Type = type

EntryNode ==
    /\ Running(NodeTypeEntry)
    /\ run' = [run EXCEPT
                  !.State.IntermediateResult = (EntryNodeKey :> NodeResult(<<>>, run.in)) @@ @,
                  !.next = Successor(fixture.ws, EntryNodeKey, "")]
    /\ execCount' = Counted(run.checkPointID, EntryNodeKey)
    /\ UNCHANGED <<fixture, store, invokeResult, lastInvoke, finished>>

\* with resume data the node answers and consumes it; without, it writes its
\* question to IntermediateResult, the State is saved and Invoke returns the
\* interrupt. A node that extracts fields from the answer asks the chat model,
\* whose reply may make it suspend with one more question
QuestionAnswerNode(reply) ==
    /\ Running(NodeTypeQuestionAnswer)
    /\ LET ns == NodeOf(fixture.ws, run.next)
           st == run.State
           in == ResolveInputs(ns, st.IntermediateResult)
           prev == Field(st.IntermediateResult, ns.Key, NodeResult(<<>>, EmptyMap))
           asked == prev.questions
           offered == IF Len(asked) > 0 THEN asked[Len(asked)].choices
                      ELSE RenderChoices(ns.Configs, in)
           resumed == ns.Key \in DOMAIN st.ResumeData
           answers == IF resumed THEN Append(prev.answers, st.ResumeData[ns.Key])
                      ELSE prev.answers
           extracted == extractFromAnswer(ns.Configs, reply, answers)
           res == IF ns.Configs.ExtractFromAnswer THEN [output |-> extracted.output, port |-> ""]
                  ELSE Answered(ns.Configs, offered, st.ResumeData[ns.Key])
           questions == IF ~resumed
                        THEN (IF Len(asked) > 0 THEN asked ELSE <<Question(ns.Configs, in)>>)
                        ELSE Append(asked, [question |-> reply.question, choices |-> <<>>])
           suspendedState ==
               [st EXCEPT !.IntermediateResult =
                              (ns.Key :> [NodeResult(questions, EmptyMap)
                                             EXCEPT !.answers = answers]) @@ @,
                          !.ResumeData = [k \in DOMAIN st.ResumeData \ {ns.Key} |->
                                             st.ResumeData[k]]]
       IN IF resumed /\ ns.Configs.ExtractFromAnswer /\ extracted.kind = "error"
          THEN /\ run' = [run EXCEPT !.status = "failed"]
               /\ invokeResult' = Returned(NoOutput, [kind |-> "error", info |-> NoOutput])
               /\ UNCHANGED store
          ELSE IF resumed /\ ~(ns.Configs.ExtractFromAnswer /\ extracted.kind = "interrupt")
          THEN /\ run' = [run EXCEPT
                             !.State.IntermediateResult =
                                 (ns.Key :> [NodeResult(asked, res.output)
                                                EXCEPT !.answers = answers]) @@ @,
                             !.State.ResumeData =
                                 [k \in DOMAIN st.ResumeData \ {ns.Key} |-> st.ResumeData[k]],
                             !.next = Successor(fixture.ws, ns.Key, res.port)]
               /\ UNCHANGED <<store, invokeResult>>
          ELSE /\ run' = [run EXCEPT !.status = "interrupted", !.State = suspendedState]
               /\ store' = [store EXCEPT ![run.checkPointID] =
                                [State |-> suspendedState, suspended |-> ns.Key]]
               /\ invokeResult' = Returned(NoOutput,
                                      [kind |-> "interrupt",
                                       info |-> [State |-> suspendedState, node |-> ns.Key]])
    /\ execCount' = Counted(run.checkPointID, run.next)
    /\ UNCHANGED <<fixture, lastInvoke, finished>>

\* func(ctx, in) (out map[string]any, err error) { return out, nil }
LambdaNode ==
    /\ Running(NodeTypeLambda)
    /\ run' = [run EXCEPT
                  !.State.IntermediateResult = (run.next :> NodeResult(<<>>, EmptyMap)) @@ @,
                  !.next = Successor(fixture.ws, run.next, "")]
    /\ execCount' = Counted(run.checkPointID, run.next)
    /\ UNCHANGED <<fixture, store, invokeResult, lastInvoke, finished>>

\* the run ends: Invoke returns the variables of the Exit node
ExitNode ==
    /\ Running(NodeTypeExit)
    /\ LET out == ResolveInputs(NodeOf(fixture.ws, run.next), run.State.IntermediateResult) IN
       /\ run' = [run EXCEPT
                     !.status = "finished",
                     !.State.IntermediateResult = (ExitNodeKey :> NodeResult(<<>>, out)) @@ @]
       /\ invokeResult' = Returned(out, NoError)
       /\ finished' = finished \cup {[suspended |-> run.wasSuspended, out |-> out]}
    /\ store' = [store EXCEPT ![run.checkPointID] = NoCheckpoint]
    /\ execCount' = Counted(run.checkPointID, ExitNodeKey)
    /\ UNCHANGED <<fixture, lastInvoke>>

\* no run yet, on one of the fixtures
RunStart(fixtures) ==
    /\ fixture \in fixtures
    /\ store = [c \in CheckPointIDs |-> NoCheckpoint]
    /\ run = NoRun
    /\ execCount = [c \in CheckPointIDs |-> [k \in NodeKeys |-> 0]]
    /\ invokeResult = Returned(NoOutput, NoError)
    /\ lastInvoke = [in |-> NoInput, checkPointID |-> "", stateModifier |-> EmptyMap,
                     found |-> NoCheckpoint, known |-> FALSE]
    /\ finished = {}

RunInit == RunStart([ws : RunSchemas, in : RunInputs, answer : Answers])

QAInit == RunStart(QAFixtures)

(***************************************************************************)
(* SyncRelatedWorkflowResources: the drafts of an app rewritten in parallel *)
(***************************************************************************)
VARIABLES
    syncInput,      \* draftVersions of the app and the relatedWorkflows argument
    syncPc,         \* where SyncRelatedWorkflowResources is
    commitIDs,      \* the batch GenMultiIDs returned
    idx,            \* the index of the next commit ID
    unvisited,      \* the drafts the range loop has not come to
    tasks,          \* the functions passed to g.Go, by workflow ID
    err,            \* the variable err of SyncRelatedWorkflowResources, which the tasks assign
    syncWritten,    \* the drafts written by CreateOrUpdateDraft, by workflow ID
    syncResult      \* the error of g.Wait(): the first error a task returned

syncVars == <<syncInput, syncPc, commitIDs, idx, unvisited, tasks, err, syncWritten, syncResult>>

NilError == [nil |-> TRUE]

\* the error of the task of workflow wid
ErrorOf(wid) == [nil |-> FALSE, from |-> wid]

\* drafts of an app: 1 calls 4, 2 has a sub-workflow node on which no workflow
\* is chosen yet, 3 and 4 call nothing
SyncDrafts ==
    (1 :> DraftOf(Canvas(<<SubWorkflowNode("11", "4", "")>>, <<>>, 0)))
    @@ (2 :> DraftOf(Canvas(<<LoopNode("21", <<SubWorkflowNode("22", "4", ""),
                                               SubWorkflowNode("23", "", "")>>)>>, <<>>, 0)))
    @@ (3 :> DraftOf(LeafCanvas))
    @@ (4 :> DraftOf(LeafCanvas))

\* relatedWorkflows: a draft of the app, a workflow that is not one, both, none
SyncRelated ==
    {(4 :> [ID |-> 14, Version |-> "v0.0.1"]),
     (9 :> [ID |-> 19, Version |-> "v0.0.1"]),
     (4 :> [ID |-> 14, Version |-> "v0.0.1"]) @@ (9 :> [ID |-> 19, Version |-> "v0.0.1"]),
     EmptyMap}

SyncInputs == [draftVersions : {SyncDrafts}, relatedWorkflows : SyncRelated]

\* repo.GenMultiIDs: counts IDs, all different
GenMultiIDs(counts) == [k \in 1..counts |-> 100 + k]

\* len(draftVersions)-len(relatedWorkflows)
ReservedCount(draftVersions, relatedWorkflows) ==
    Cardinality(DOMAIN draftVersions) - Cardinality(DOMAIN relatedWorkflows)

NoTask == [pc |-> "none", commitID |-> 0, canvas |-> NotJSON, ownErr |-> FALSE, ret |-> NilError]

SyncRelatedWorkflowResources ==
    /\ syncPc = "idle"
    /\ commitIDs' = GenMultiIDs(ReservedCount(syncInput.draftVersions, syncInput.relatedWorkflows))
    /\ idx' = 0
    /\ unvisited' = DOMAIN syncInput.draftVersions
    /\ syncPc' = "range"
    /\ UNCHANGED <<syncInput, tasks, err, syncWritten, syncResult>>

\* one iteration of "for id, vInfo := range draftVersions"
SyncRange ==
    /\ syncPc = "range"
    /\ \E id \in unvisited :
          /\ unvisited' = unvisited \ {id}
          /\ IF HasKey(syncInput.relatedWorkflows, id)
             THEN UNCHANGED <<syncPc, idx, tasks>>
             ELSE IF idx + 1 > Len(commitIDs)
             \* commitIDs[idx]: index out of range
             THEN /\ syncPc' = "panic"
                  /\ UNCHANGED <<idx, tasks>>
             ELSE /\ idx' = idx + 1
                  /\ tasks' = (id :> [NoTask EXCEPT !.pc = "unmarshal",
                                                    !.commitID = commitIDs[idx + 1]]) @@ tasks
                  /\ UNCHANGED syncPc
    /\ UNCHANGED <<syncInput, commitIDs, err, syncWritten, syncResult>>

\* the loop is over: g.Wait()
SyncWait ==
    /\ syncPc = "range"
    /\ unvisited = {}
    /\ syncPc' = "wait"
    /\ UNCHANGED <<syncInput, commitIDs, idx, unvisited, tasks, err, syncWritten, syncResult>>

TaskAt(wid, at) == syncPc \in {"range", "wait"} /\ wid \in DOMAIN tasks /\ tasks[wid].pc = at

\* err = sonic.UnmarshalString(verInfo.Canvas, &canvas)
TaskUnmarshal(wid) ==
    /\ TaskAt(wid, "unmarshal")
    /\ LET canvas == UnmarshalString(syncInput.draftVersions[wid].Canvas) IN
       /\ err' = IF canvas.err THEN ErrorOf(wid) ELSE NilError
       /\ tasks' = [tasks EXCEPT ![wid].pc = "replace", ![wid].canvas = MarshalString(canvas.val)]
    /\ UNCHANGED <<syncInput, syncPc, commitIDs, idx, unvisited, syncWritten, syncResult>>

\* err = replaceRelatedWorkflowOrExternalResourceInWorkflowNodes(canvas.Nodes, ...)
TaskReplace(wid) ==
    /\ TaskAt(wid, "replace")
    /\ LET canvas == UnmarshalString(tasks[wid].canvas).val
           nodes == replaceRelatedWorkflowOrExternalResourceInWorkflowNodes(
                        canvas.Nodes, syncInput.relatedWorkflows)
       IN /\ err' = IF nodes.err THEN ErrorOf(wid) ELSE NilError
          /\ tasks' = [tasks EXCEPT ![wid].pc = "check", ![wid].ownErr = nodes.err,
                                    ![wid].canvas = MarshalString([canvas EXCEPT !.Nodes = nodes.val])]
    /\ UNCHANGED <<syncInput, syncPc, commitIDs, idx, unvisited, syncWritten, syncResult>>

\* "if err != nil { return err }", and then the draft is written
TaskCheck(wid) ==
    /\ TaskAt(wid, "check")
    /\ IF err # NilError
       THEN /\ tasks' = [tasks EXCEPT ![wid].pc = "done", ![wid].ret = err]
            /\ syncResult' = IF syncResult = NilError THEN err ELSE syncResult
            /\ UNCHANGED syncWritten
       ELSE /\ tasks' = [tasks EXCEPT ![wid].pc = "done"]
            /\ UNCHANGED syncResult
            /\ syncWritten' = (wid :> [Canvas |-> tasks[wid].canvas,
                                       CommitID |-> FormatInt(tasks[wid].commitID),
                                       TestRunSuccess |-> FALSE, Modified |-> TRUE]) @@ syncWritten
    /\ UNCHANGED <<syncInput, syncPc, commitIDs, idx, unvisited, err>>

\* g.Wait() returns when every task has
SyncReturn ==
    /\ syncPc = "wait"
    /\ \A wid \in DOMAIN tasks : tasks[wid].pc = "done"
    /\ syncPc' = "done"
    /\ UNCHANGED <<syncInput, commitIDs, idx, unvisited, tasks, err, syncWritten, syncResult>>

SyncInit ==
    /\ syncInput \in SyncInputs
    /\ syncPc = "idle"
    /\ commitIDs = <<>>
    /\ idx = 0
    /\ unvisited = {}
    /\ tasks = EmptyMap
    /\ err = NilError
    /\ syncWritten = EmptyMap
    /\ syncResult = NilError

\* SyncRelatedWorkflowResources is not called
SyncIdle ==
    /\ syncInput = [draftVersions |-> SyncDrafts, relatedWorkflows |-> EmptyMap]
    /\ syncPc = "off"
    /\ commitIDs = <<>>
    /\ idx = 0
    /\ unvisited = {}
    /\ tasks = EmptyMap
    /\ err = NilError
    /\ syncWritten = EmptyMap
    /\ syncResult = NilError

\* the write of one task of SyncRelatedWorkflowResources on the draft store: the
\* draft of wid with its references rewritten, under a new commit ID, with
\* TestRunSuccess false
SyncDraft(wid, related) ==
    /\ metas[wid].exists
    /\ drafts[wid] # NoDraft
    /\ ~HasKey(related, wid)
    /\ idgen < MaxCommits
    /\ LET canvas == UnmarshalString(drafts[wid].Canvas).val
           nodes == replaceRelatedWorkflowOrExternalResourceInWorkflowNodes(canvas.Nodes, related)
       IN  /\ drafts' = IF nodes.err THEN drafts
                        ELSE [drafts EXCEPT ![wid] =
                                [Canvas |-> MarshalString([canvas EXCEPT !.Nodes = nodes.val]),
                                 TestRunSuccess |-> FALSE,
                                 Modified |-> TRUE,
                                 InputParamsStr |-> drafts[wid].InputParamsStr,
                                 OutputParamsStr |-> drafts[wid].OutputParamsStr,
                                 CommitID |-> FormatInt(GenID(idgen))]]
           /\ lastCall' = [op |-> "Sync", id |-> wid, err |-> nodes.err,
                           existedDraft |-> drafts[wid]]
    /\ idgen' = idgen + 1
    /\ UNCHANGED <<metas, versions>>

(***************************************************************************)
(* WorkflowSchemaCheck: the validation walk over the reference graph       *)
(***************************************************************************)
VARIABLES
    checkInput,     \* the stored canvases, the workflow to check and the checks asked for
    checkPc,        \* position in WorkflowSchemaCheck
    checks,         \* the check types not yet run
    queue,          \* validateNodesRecursively: the nodes still to visit
    visited,        \* the (workflowID, version) pairs marked visited in this check
    traversals,     \* how often the nodes of a pair's canvas were put on the queue in this check
    walkErr,        \* the error validateNodesRecursively returns
    checkResults    \* the results appended so far

checkVars == <<checkInput, checkPc, checks, queue, visited, traversals, walkErr, checkResults>>

MaxQueue == 8
MaxTraversals == 2

NodeTypeCreateConversation == "CreateConversation"
NodeTypeConversationDelete == "ConversationDelete"
NodeTypeConversationUpdate == "ConversationUpdate"
NodeTypeConversationList == "ConversationList"

CheckType_BotAgent == "BotAgent"
CheckType_Other == "Other"

FromDraft == ""

ErrRecordNotFound == [gorm |-> "record not found"]

Entity(id, version, canvas) == [ID |-> id, Version |-> version, Canvas |-> MarshalString(canvas)]

\* entity.Workflow.GetVersion
GetVersion(wf) == wf.Version

\* fmt.Sprintf("%d:%s", workflowID, version)
VisitedKey(workflowID, version) == <<workflowID, version>>

Nodes(ns) == Canvas(ns, <<>>, 0)

\* workflows 2 and 3 both call workflow 4, one of them as a tool of an LLM node
GraphDiamond ==
    (<<1, "">> :> Nodes(<<SubWorkflowNode("11", "2", ""), SubWorkflowNode("12", "3", "")>>))
    @@ (<<2, "">> :> Nodes(<<SubWorkflowNode("21", "4", "")>>))
    @@ (<<3, "">> :> Nodes(<<LLMNode("31", <<WorkflowTool("4", ""), WorkflowTool("", "")>>)>>))
    @@ (<<4, "">> :> Nodes(<<Node("41", NodeTypeLLM)>>))

\* workflow 2, called inside a loop of the root, calls the root
GraphRootCycle ==
    (<<1, "">> :> Nodes(<<LoopNode("11", <<SubWorkflowNode("12", "2", "")>>)>>))
    @@ (<<2, "">> :> Nodes(<<SubWorkflowNode("21", "1", "")>>))

\* workflows 2 and 3 call one another, and 3 calls the root as well
GraphCycle ==
    (<<1, "">> :> Nodes(<<SubWorkflowNode("11", "2", "")>>))
    @@ (<<2, "">> :> Nodes(<<SubWorkflowNode("21", "3", "")>>))
    @@ (<<3, "">> :> Nodes(<<SubWorkflowNode("31", "2", ""), SubWorkflowNode("32", "1", "")>>))

\* the root calls itself and a published version of workflow 2, which calls
\* itself and the draft of workflow 2
GraphVersions ==
    (<<1, "">> :> Nodes(<<SubWorkflowNode("11", "1", ""),
                          LLMNode("12", <<WorkflowTool("2", "v0.0.1"), WorkflowTool("2", "v0.0.1")>>)>>))
    @@ (<<2, "v0.0.1">> :> Nodes(<<SubWorkflowNode("21", "2", "v0.0.1"), SubWorkflowNode("22", "2", "")>>))
    @@ (<<2, "">> :> Nodes(<<Node("23", NodeTypeLoop)>>))

\* workflow 5 is called twice and does not exist
GraphMissing ==
    (<<1, "">> :> Nodes(<<SubWorkflowNode("11", "5", ""), SubWorkflowNode("12", "5", ""),
                          SubWorkflowNode("13", "2", "")>>))
    @@ (<<2, "">> :> Nodes(<<Node("21", NodeTypeLLM)>>))

\* workflow 2 holds a conversation node next to a call of workflow 4
GraphConversation ==
    (<<1, "">> :> Nodes(<<SubWorkflowNode("11", "2", ""), SubWorkflowNode("12", "3", "")>>))
    @@ (<<2, "">> :> Nodes(<<Node("21", NodeTypeCreateConversation), SubWorkflowNode("22", "4", "")>>))
    @@ (<<3, "">> :> Nodes(<<Node("31", NodeTypeLLM)>>))
    @@ (<<4, "">> :> Nodes(<<Node("41", NodeTypeLLM)>>))

\* the first sub-workflow node of the root holds a workflow ID that is no number
GraphBadID ==
    (<<1, "">> :> Nodes(<<SubWorkflowNode("11", "x", ""), SubWorkflowNode("12", "2", "")>>))
    @@ (<<2, "">> :> Nodes(<<Node("21", NodeTypeLLM)>>))

\* a record the store fails to read
Unavailable == [unavailable |-> TRUE]

ErrUnavailable == [gorm |-> "invalid connection"]

\* workflow 5 does not exist and workflow 2 cannot be read; both are called by
\* sub-workflow nodes of the root, which calls workflow 3 after them
GraphUnavailable ==
    (<<1, "">> :> Nodes(<<SubWorkflowNode("11", "5", ""), SubWorkflowNode("12", "2", ""),
                          SubWorkflowNode("13", "3", "")>>))
    @@ (<<2, "">> :> Unavailable)
    @@ (<<3, "">> :> Nodes(<<Node("31", NodeTypeLLM)>>))

\* the same with the two as tools of a large model node of workflow 3
GraphToolUnavailable ==
    (<<1, "">> :> Nodes(<<SubWorkflowNode("11", "3", "")>>))
    @@ (<<2, "">> :> Unavailable)
    @@ (<<3, "">> :> Nodes(<<LLMNode("31", <<WorkflowTool("5", ""), WorkflowTool("2", "")>>)>>))

\* workflow 5, a tool of the root, does not exist; workflow 2 is called after it
GraphToolMissing ==
    (<<1, "">> :> Nodes(<<LLMNode("11", <<WorkflowTool("5", "v0.0.1"), WorkflowTool("2", "")>>)>>))
    @@ (<<2, "">> :> Nodes(<<Node("21", NodeTypeLLM)>>))

\* the root holds a conversation node two blocks deep
GraphNestedConversation ==
    (<<1, "">> :> Nodes(<<LoopNode("11", <<Node("12", NodeTypeLLM),
                                           LoopNode("13", <<Node("14", NodeTypeConversationUpdate)>>)>>)>>))

\* a tool of the root is a version of workflow 2, which calls workflow 3, which
\* holds a conversation node in a block; the draft of workflow 2 is not called
GraphToolConversation ==
    (<<1, "">> :> Nodes(<<LLMNode("11", <<WorkflowTool("2", "v0.0.1")>>)>>))
    @@ (<<2, "v0.0.1">> :> Nodes(<<SubWorkflowNode("21", "3", "")>>))
    @@ (<<2, "">> :> Nodes(<<Node("22", NodeTypeLLM)>>))
    @@ (<<3, "">> :> Nodes(<<LoopNode("31", <<Node("32", NodeTypeConversationDelete)>>)>>))

\* conversation nodes only in canvases the root does not reach: a version of
\* workflow 2, whose draft the root calls, and workflow 4, which nothing calls
GraphConversationElsewhere ==
    (<<1, "">> :> Nodes(<<SubWorkflowNode("11", "2", ""), SubWorkflowNode("12", "5", "")>>))
    @@ (<<2, "">> :> Nodes(<<Node("21", NodeTypeLLM)>>))
    @@ (<<2, "v0.0.1">> :> Nodes(<<Node("23", NodeTypeConversationList)>>))
    @@ (<<4, "">> :> Nodes(<<Node("41", NodeTypeCreateConversation)>>))

Graphs == {GraphDiamond, GraphRootCycle, GraphCycle, GraphVersions, GraphMissing,
           GraphConversation, GraphBadID, GraphUnavailable, GraphToolUnavailable,
           GraphToolMissing, GraphNestedConversation, GraphToolConversation,
           GraphConversationElsewhere}

\* a published version of workflow 1 whose canvas calls the draft of workflow 1
RootVersion == Entity(1, "v0.0.1", Nodes(<<SubWorkflowNode("11", "1", "")>>))

CheckLists == {<<CheckType_BotAgent>>, <<CheckType_Other>>, <<CheckType_Other, CheckType_BotAgent>>}

CheckInputs ==
    {[graph |-> g, wf |-> Entity(1, FromDraft, g[<<1, "">>]), checks |-> cs] :
        g \in Graphs, cs \in CheckLists}
    \cup {[graph |-> GraphRootCycle, wf |-> RootVersion, checks |-> <<CheckType_BotAgent>>],
          [graph |-> GraphDiamond, wf |-> [ID |-> 1, Version |-> FromDraft, Canvas |-> NotJSON],
           checks |-> <<CheckType_BotAgent>>]}

\* repo.GetEntity
GetEntity(graph, id, version) ==
    IF VisitedKey(id, version) \notin DOMAIN graph
    THEN [err |-> ErrRecordNotFound, val |-> Entity(id, version, Nodes(<<>>))]
    ELSE IF graph[VisitedKey(id, version)] = Unavailable
    THEN [err |-> ErrUnavailable, val |-> Entity(id, version, Nodes(<<>>))]
    ELSE [err |-> NilError, val |-> Entity(id, version, graph[VisitedKey(id, version)])]

\* variant: no error of GetEntity is taken for a missing record
IsRecordNotFound_Never(e) == FALSE

\* errors.Is(err, gorm.ErrRecordNotFound)
IsRecordNotFound(e) == e = ErrRecordNotFound

\* variant: only the node that creates a conversation is refused
checkBotAgentNode_CreateOnly(node) ==
    IF node.Type = NodeTypeCreateConversation
    THEN "conversation-related nodes are not supported in chatflow"
    ELSE ""

checkBotAgentNode(node) ==
    IF node.Type \in {NodeTypeCreateConversation, NodeTypeConversationDelete,
                      NodeTypeConversationUpdate, NodeTypeConversationList}
    THEN "conversation-related nodes are not supported in chatflow"
    ELSE ""

\* the walk never looks a pair up in the visited set
IsVisited_Never(marked, visitedKey) == FALSE

\* _, ok := visited[visitedKey]
IsVisited(marked, visitedKey) == visitedKey \in marked

Traversed(count, visitedKey) ==
    [k \in DOMAIN count \cup {visitedKey} |->
        IF k = visitedKey
        THEN (IF k \in DOMAIN count
              THEN (IF count[k] < MaxTraversals THEN count[k] + 1 ELSE count[k])
              ELSE 1)
        ELSE count[k]]

\* the walk never marks a pair
MarkVisited_Forget(marked, visitedKey) == marked

\* visited[visitedKey] = struct{}{}
MarkVisited(marked, visitedKey) == marked \cup {visitedKey}

\* what both branches of the walk do with one reference (workflowID, version)
visitReference(st, graph, workflowIDStr, version, what) ==
    IF workflowIDStr = "" THEN st
    ELSE LET parsed == ParseInt(workflowIDStr) IN
         IF parsed.err THEN [st EXCEPT !.err = "invalid workflow ID in " \o what]
         ELSE LET visitedKey == VisitedKey(parsed.val, version)
                  subWfEntity == GetEntity(graph, parsed.val, version)
                  canvas == UnmarshalString(subWfEntity.val.Canvas)
              IN  IF IsVisited(st.visited, visitedKey) THEN st
                  ELSE IF subWfEntity.err # NilError /\ IsRecordNotFound(subWfEntity.err) THEN st
                  ELSE IF subWfEntity.err # NilError
                       THEN [st EXCEPT !.err = "failed to get sub-workflow entity"]
                  ELSE IF canvas.err
                       THEN [st EXCEPT !.visited = MarkVisited(@, visitedKey),
                                       !.err = "failed to unmarshal canvas"]
                  ELSE [st EXCEPT !.visited = MarkVisited(@, visitedKey),
                                  !.traversals = Traversed(@, visitedKey),
                                  !.queue = @ \o canvas.val.Nodes]

RECURSIVE visitWorkflowList(_, _, _)
visitWorkflowList(st, graph, list) ==
    IF list = <<>> \/ st.err # "" THEN st
    ELSE visitWorkflowList(
             visitReference(st, graph, Head(list).WorkflowID, Head(list).WorkflowVersion,
                            "large model node"),
             graph, Tail(list))

\* one iteration of the loop of validateNodesRecursively
validateNode(st, graph, checkType) ==
    LET node == Head(st.queue)
        checkErr == IF checkType = CheckType_BotAgent THEN checkBotAgentNode(node) ELSE ""
        popped == [st EXCEPT !.queue = Tail(@) \o node.Blocks]
    IN  IF checkErr # "" THEN [st EXCEPT !.queue = Tail(@), !.err = checkErr]
        ELSE IF node.Type = NodeTypeSubWorkflow
             THEN visitReference(popped, graph, node.WorkflowID, node.WorkflowVersion,
                                 "sub-workflow node")
        ELSE IF node.Type = NodeTypeLLM
             THEN visitWorkflowList(popped, graph, node.WorkflowList)
        ELSE popped

CheckResult(isPass, reason, type) == [IsPass |-> isPass, Reason |-> reason, Type |-> type]

WorkflowSchemaCheck ==
    /\ checkPc = "call"
    /\ IF UnmarshalString(checkInput.wf.Canvas).err
       THEN checkPc' = "failed" /\ checks' = <<>>
       ELSE checkPc' = "check" /\ checks' = checkInput.checks
    /\ UNCHANGED <<checkInput, queue, visited, traversals, walkErr, checkResults>>

\* a fresh visited set holding the root, and the root's nodes on the queue
CheckBegin ==
    /\ checkPc = "check"
    /\ checks # <<>>
    /\ LET visitedKey == VisitedKey(checkInput.wf.ID, GetVersion(checkInput.wf)) IN
           /\ visited' = MarkVisited({}, visitedKey)
           /\ traversals' = (visitedKey :> 1)
    /\ queue' = UnmarshalString(checkInput.wf.Canvas).val.Nodes
    /\ walkErr' = ""
    /\ checkPc' = "walk"
    /\ UNCHANGED <<checkInput, checks, checkResults>>

ValidateNode ==
    /\ checkPc = "walk"
    /\ queue # <<>>
    /\ walkErr = ""
    /\ LET st == validateNode([queue |-> queue, visited |-> visited, traversals |-> traversals,
                               err |-> ""], checkInput.graph, Head(checks))
       IN  /\ Len(st.queue) <= MaxQueue
           /\ queue' = st.queue
           /\ visited' = st.visited
           /\ traversals' = st.traversals
           /\ walkErr' = st.err
    /\ UNCHANGED <<checkInput, checkPc, checks, checkResults>>

\* validateNodesRecursively has returned: the result of this check is appended
CheckEnd ==
    /\ checkPc = "walk"
    /\ queue = <<>> \/ walkErr # ""
    /\ checkResults' = Append(checkResults, CheckResult(walkErr = "", walkErr, Head(checks)))
    /\ checks' = Tail(checks)
    /\ checkPc' = "check"
    /\ UNCHANGED <<checkInput, queue, visited, traversals, walkErr>>

CheckReturn ==
    /\ checkPc = "check"
    /\ checks = <<>>
    /\ checkPc' = "done"
    /\ UNCHANGED <<checkInput, checks, queue, visited, traversals, walkErr, checkResults>>

CheckInit ==
    /\ checkInput \in CheckInputs
    /\ checkPc = "call"
    /\ checks = <<>>
    /\ queue = <<>>
    /\ visited = {}
    /\ traversals = EmptyMap
    /\ walkErr = ""
    /\ checkResults = <<>>

\* WorkflowSchemaCheck is not called
CheckIdle ==
    /\ checkInput = [graph |-> GraphDiamond, wf |-> Entity(1, FromDraft, GraphDiamond[<<1, "">>]),
                     checks |-> <<>>]
    /\ checkPc = "off"
    /\ checks = <<>>
    /\ queue = <<>>
    /\ visited = {}
    /\ traversals = EmptyMap
    /\ walkErr = ""
    /\ checkResults = <<>>

(***************************************************************************)
(* ValidateTree: the issues of a canvas and of the workflows it calls      *)
(***************************************************************************)
VARIABLES
    treeInput,          \* the stored canvases, the workflow ID and the canvas schema passed in
    treePc,             \* position in ValidateTree
    workflows,          \* the drafts MGet returned that are not yet validated
    wfValidateInfos,    \* the entries appended so far
    treeErr             \* whether ValidateTree returns an error

treeVars == <<treeInput, treePc, workflows, wfValidateInfos, treeErr>>

TreeWorkflowIDs == 1..4

WithIssue(canvas, bad) ==
    IF bad THEN [canvas EXCEPT !.Nodes = Append(@, Node("99", NodeTypeDisallowed))] ELSE canvas

\* the root calls 2 and, inside a loop, 3; workflow 2 calls 4
TreeDeep(bad) ==
    (<<1, "">> :> WithIssue(Nodes(<<SubWorkflowNode("11", "2", ""),
                                    LoopNode("12", <<SubWorkflowNode("13", "3", "")>>)>>), 1 \in bad))
    @@ (<<2, "">> :> WithIssue(Nodes(<<SubWorkflowNode("21", "4", "")>>), 2 \in bad))
    @@ (<<3, "">> :> WithIssue(Nodes(<<Node("31", NodeTypeLLM)>>), 3 \in bad))
    @@ (<<4, "">> :> WithIssue(Nodes(<<Node("41", NodeTypeLLM)>>), 4 \in bad))

\* the root has 2 as a tool of an LLM node, calls a published version of 3, and
\* calls 4 twice
TreeTools(bad) ==
    (<<1, "">> :> WithIssue(Nodes(<<LLMNode("11", <<WorkflowTool("2", "")>>),
                                    SubWorkflowNode("12", "3", "v0.0.1"),
                                    SubWorkflowNode("13", "4", ""),
                                    SubWorkflowNode("14", "4", "")>>), 1 \in bad))
    @@ (<<2, "">> :> WithIssue(Nodes(<<Node("21", NodeTypeLLM)>>), 2 \in bad))
    @@ (<<3, "v0.0.1">> :> WithIssue(Nodes(<<Node("31", NodeTypeLLM)>>), 3 \in bad))
    @@ (<<4, "">> :> WithIssue(Nodes(<<Node("41", NodeTypeLLM)>>), 4 \in bad))

\* the root calls only a published version of 3
TreeVersionOnly(bad) ==
    (<<1, "">> :> WithIssue(Nodes(<<SubWorkflowNode("12", "3", "v0.0.1")>>), 1 \in bad))
    @@ (<<3, "v0.0.1">> :> WithIssue(Nodes(<<Node("31", NodeTypeLLM)>>), 3 \in bad))

TreeGraphs ==
    {TreeDeep(bad) : bad \in SUBSET TreeWorkflowIDs}
    \cup {TreeTools(bad) : bad \in SUBSET TreeWorkflowIDs}
    \cup {TreeVersionOnly(bad) : bad \in SUBSET {1, 3}}

NameOf(id) == "workflow_" \o FormatInt(id)

TreeInputs ==
    {[graph |-> g, id |-> 1, CanvasSchema |-> MarshalString(g[<<1, "">>])] : g \in TreeGraphs}
    \cup {[graph |-> TreeDeep({}), id |-> 1, CanvasSchema |-> NotJSON]}

\* getAllSubWorkflowIdentities: one identity per sub-workflow node, Blocks descended
RECURSIVE getAllSubWorkflowIdentities(_)
getAllSubWorkflowIdentities(nodes) ==
    IF nodes = <<>> THEN <<>>
    ELSE LET n == Head(nodes) IN
         (IF n.Type = NodeTypeSubWorkflow
          THEN <<[ID |-> n.WorkflowID, Version |-> n.WorkflowVersion]>>
          ELSE <<>>)
         \o getAllSubWorkflowIdentities(n.Blocks)
         \o getAllSubWorkflowIdentities(Tail(nodes))

\* cast.ToInt64: 0 for a string that is no number
ToInt64(s) == ParseInt(s).val

\* the ids of the identities without a version
DraftIDs(identities) ==
    {ToInt64(identities[k].ID) : k \in {j \in DOMAIN identities : identities[j].Version = ""}}

\* MGet with QType FromDraft: repo.MGetDrafts
MGetDrafts(graph, ids) ==
    {[ID |-> id, Name |-> NameOf(id), Canvas |-> MarshalString(graph[<<id, "">>])] :
        id \in {j \in ids : <<j, "">> \in DOMAIN graph}}

ValidateTreeInfo(workflowID, name) == [WorkflowID |-> workflowID, Name |-> name]

\* the root canvas is validated, and the drafts its sub-workflow nodes call are fetched
ValidateTree ==
    /\ treePc = "call"
    /\ LET c == UnmarshalString(treeInput.CanvasSchema)
           subWorkflowIdentities == getAllSubWorkflowIdentities(c.val.Nodes)
           ids == DraftIDs(subWorkflowIdentities)
       IN  IF c.err
           THEN /\ treeErr' = TRUE
                /\ treePc' = "done"
                /\ UNCHANGED <<workflows, wfValidateInfos>>
           ELSE /\ wfValidateInfos' =
                       IF validateWorkflowTree(treeInput.CanvasSchema)
                       THEN <<ValidateTreeInfo(FormatInt(treeInput.id), "")>>
                       ELSE <<>>
                /\ workflows' = MGetDrafts(treeInput.graph, ids)
                /\ treePc' = "range"
                /\ treeErr' = FALSE
    /\ UNCHANGED treeInput

\* one iteration of the loop over the drafts MGet returned
ValidateSubWorkflow(wf) ==
    /\ treePc = "range"
    /\ wf \in workflows
    /\ wfValidateInfos' =
           IF validateWorkflowTree(wf.Canvas)
           THEN Append(wfValidateInfos, ValidateTreeInfo(FormatInt(wf.ID), wf.Name))
           ELSE wfValidateInfos
    /\ workflows' = workflows \ {wf}
    /\ UNCHANGED <<treeInput, treePc, treeErr>>

ValidateTreeReturn ==
    /\ treePc = "range"
    /\ workflows = {}
    /\ treePc' = "done"
    /\ UNCHANGED <<treeInput, workflows, wfValidateInfos, treeErr>>

TreeInit ==
    /\ treeInput \in TreeInputs
    /\ treePc = "call"
    /\ workflows = {}
    /\ wfValidateInfos = <<>>
    /\ treeErr = FALSE

\* ValidateTree is not called
TreeIdle ==
    /\ treeInput = [graph |-> TreeDeep({}), id |-> 1, CanvasSchema |-> NotJSON]
    /\ treePc = "off"
    /\ workflows = {}
    /\ wfValidateInfos = <<>>
    /\ treeErr = FALSE

(***************************************************************************)
(* canvasToRefs applied to the canvases of a bounded set                   *)
(***************************************************************************)
VARIABLES
    refsInput,      \* the arguments of canvasToRefs
    refsPc,         \* whether canvasToRefs was called
    wfRefs          \* what canvasToRefs returned

refsVars == <<refsInput, refsPc, wfRefs>>

MaxNodes == 2

\* the nodes a canvas is built of: only container nodes hold Blocks
RefNodes ==
    {SubWorkflowNode("11", "2", ""), SubWorkflowNode("12", "3", "v0.0.1"),
     SubWorkflowNode("13", "x", ""),
     LLMNode("14", <<WorkflowTool("2", ""), WorkflowTool("3", "")>>),
     LLMNode("15", <<WorkflowTool("2", ""), WorkflowTool("2", "v0.0.1")>>),
     LLMNode("16", <<>>),
     LoopNode("17", <<SubWorkflowNode("18", "2", "")>>),
     LoopNode("19", <<LoopNode("20", <<LLMNode("21", <<WorkflowTool("3", "")>>),
                                       SubWorkflowNode("22", "4", "")>>)>>),
     Node("23", NodeTypePlugin)}

RefCanvases == UNION {[1..n -> RefNodes] : n \in 0..MaxNodes}

RefsInputs ==
    {[referringID |-> r, canvasStr |-> MarshalString(Nodes(ns))] : r \in {1, 7}, ns \in RefCanvases}
    \cup {[referringID |-> 1, canvasStr |-> NotJSON]}

CanvasToRefs ==
    /\ refsPc = "call"
    /\ wfRefs' = canvasToRefs(refsInput.referringID, refsInput.canvasStr)
    /\ refsPc' = "done"
    /\ UNCHANGED refsInput

RefsInit ==
    /\ refsInput \in RefsInputs
    /\ refsPc = "call"
    /\ wfRefs = [err |-> FALSE, val |-> {}]

\* canvasToRefs is not called
RefsIdle ==
    /\ refsInput = [referringID |-> 1, canvasStr |-> NotJSON]
    /\ refsPc = "off"
    /\ wfRefs = [err |-> FALSE, val |-> {}]

(***************************************************************************)
(* GetWorkflowDependenceResource: the plugins, knowledge bases and         *)
(* databases a draft and the drafts it calls depend on                     *)
(***************************************************************************)
VARIABLES
    depInput,       \* the stored drafts and the workflow asked for
    depPc,          \* whether GetWorkflowDependenceResource was called
    ds,             \* the DependenceResource returned
    depErr,         \* whether an error was returned
    depStack        \* the calls of collectDependence that have not returned

depVars == <<depInput, depPc, ds, depErr, depStack>>

MaxDepNodes == 2

NodeTypeDatabase == "Database"
NodeTypeKnowledge == "Knowledge"

\* entity.NodeMetaByNodeType
NodeMetaByNodeType(nType) ==
    [UseDatabase |-> nType = NodeTypeDatabase,
     UseKnowledge |-> nType = NodeTypeKnowledge,
     UsePlugin |-> nType = NodeTypePlugin]

NoResources ==
    [DatabaseInfoList |-> <<>>, DatasetParam |-> <<>>, pluginID |-> "", pluginVersion |-> "",
     PluginList |-> <<>>, KnowledgeList |-> <<>>]

DepNode(node, resources) == resources @@ NoResources @@ node

PluginNode(id, pluginID, pluginVersion) ==
    DepNode(Node(id, NodeTypePlugin), [pluginID |-> pluginID, pluginVersion |-> pluginVersion])

DatabaseNode(id, databaseInfoIDs) ==
    DepNode(Node(id, NodeTypeDatabase), [DatabaseInfoList |-> databaseInfoIDs])

KnowledgeNode(id, datasetIDs) ==
    DepNode(Node(id, NodeTypeKnowledge), [DatasetParam |-> datasetIDs])

PluginTool(pluginID, isDraft) == [PluginID |-> pluginID, IsDraft |-> isDraft]

DraftTool(wid, isDraft) == [IsDraft |-> isDraft] @@ WorkflowTool(wid, "")

\* a draft plugin tool, a published plugin tool, a knowledge base and a draft workflow tool
DepLLMNode(id) ==
    DepNode(LLMNode(id, <<DraftTool("3", TRUE), DraftTool("4", FALSE)>>),
            [PluginList |-> <<PluginTool("5", TRUE), PluginTool("9", FALSE)>>,
             KnowledgeList |-> <<"8">>])

\* the nodes the canvas of the workflow asked for is built of
DepNodes ==
    {PluginNode("11", "5", "0"), PluginNode("12", "6", "1.0"),
     DatabaseNode("13", <<"7">>), DatabaseNode("14", <<>>),
     KnowledgeNode("15", <<"8", "8">>),
     DepLLMNode("16"),
     DepNode(SubWorkflowNode("17", "2", ""), NoResources),
     DepNode(SubWorkflowNode("18", "4", "v0.0.1"), NoResources),
     DepNode(SubWorkflowNode("19", "9", ""), NoResources),
     DepNode(LoopNode("20", <<PluginNode("21", "5", "0"), DatabaseNode("22", <<"7">>)>>),
             NoResources)}

\* draft 2 uses plugin 5 and calls draft 3, draft 3 uses database 7, draft 4
\* uses knowledge base 8; there is no draft 9
DepDrafts(nodes) ==
    (<<1, "">> :> Nodes(nodes))
    @@ (<<2, "">> :> Nodes(<<PluginNode("31", "5", "0"),
                             DepNode(SubWorkflowNode("32", "3", ""), NoResources)>>))
    @@ (<<3, "">> :> Nodes(<<DatabaseNode("33", <<"7">>)>>))
    @@ (<<4, "">> :> Nodes(<<KnowledgeNode("34", <<"8">>)>>))

DepInputs ==
    {[graph |-> DepDrafts(ns), workflowID |-> 1] : ns \in UNION {[1..n -> DepNodes] : n \in 0..MaxDepNodes}}
    \cup {[graph |-> DepDrafts(<<>>), workflowID |-> 9]}

DependenceResource(pluginIDs, knowledgeIDs, databaseIDs) ==
    [PluginIDs |-> pluginIDs, KnowledgeIDs |-> knowledgeIDs, DatabaseIDs |-> databaseIDs]

\* the IDs of a list parsed and appended, or the first parse error
RECURSIVE AppendParsed(_, _)
AppendParsed(acc, ids) ==
    IF ids = <<>> THEN [err |-> FALSE, val |-> acc]
    ELSE IF ParseInt(Head(ids)).err THEN [err |-> TRUE, val |-> acc]
    ELSE AppendParsed(Append(acc, ParseInt(Head(ids)).val), Tail(ids))

DraftOnes(list) == SelectSeq(list, LAMBDA t : t.IsDraft)

RECURSIVE collectDependence(_, _, _)
RECURSIVE collectWorkflowTools(_, _, _)

\* the draft workflow tools of an LLM node, each fetched and walked
collectWorkflowTools(tools, out, graph) ==
    IF tools = <<>> THEN [err |-> FALSE, val |-> out]
    ELSE LET wID == ParseInt(Head(tools).WorkflowID)
             wfe == GetEntity(graph, wID.val, FromDraft)
             workflowToolCanvas == UnmarshalString(wfe.val.Canvas)
         IN  IF wID.err \/ wfe.err # NilError \/ workflowToolCanvas.err
             THEN [err |-> TRUE, val |-> out]
             ELSE LET walked == collectDependence(workflowToolCanvas.val.Nodes, out, graph)
                  IN  IF walked.err THEN walked
                      ELSE collectWorkflowTools(Tail(tools), walked.val, graph)

collectDependence(nodes, out, graph) ==
    IF nodes = <<>> THEN [err |-> FALSE, val |-> out]
    ELSE LET node == Head(nodes)
             meta == NodeMetaByNodeType(node.Type)
             databases == AppendParsed(out.DatabaseIDs, node.DatabaseInfoList)
             datasets == AppendParsed(out.KnowledgeIDs, node.DatasetParam)
             pID == ParseInt(node.pluginID)
             pluginTools == AppendParsed(out.PluginIDs,
                                [k \in DOMAIN DraftOnes(node.PluginList) |->
                                    DraftOnes(node.PluginList)[k].PluginID])
             knowledgeTools == AppendParsed(out.KnowledgeIDs, node.KnowledgeList)
             wfID == ParseInt(node.WorkflowID)
             subWorkflow == GetEntity(graph, wfID.val, FromDraft)
             subCanvas == UnmarshalString(subWorkflow.val.Canvas)
             one ==
                 IF meta.UseDatabase
                 THEN IF Len(node.DatabaseInfoList) = 0 THEN [err |-> TRUE, val |-> out]
                      ELSE [err |-> databases.err, val |-> [out EXCEPT !.DatabaseIDs = databases.val]]
                 ELSE IF meta.UseKnowledge
                 THEN [err |-> datasets.err, val |-> [out EXCEPT !.KnowledgeIDs = datasets.val]]
                 ELSE IF meta.UsePlugin
                 THEN IF pID.err THEN [err |-> TRUE, val |-> out]
                      ELSE IF node.pluginVersion = "0"
                      THEN [err |-> FALSE, val |-> [out EXCEPT !.PluginIDs = Append(@, pID.val)]]
                      ELSE [err |-> FALSE, val |-> out]
                 ELSE IF node.Type = NodeTypeLLM
                 THEN IF pluginTools.err \/ knowledgeTools.err THEN [err |-> TRUE, val |-> out]
                      ELSE collectWorkflowTools(
                               DraftOnes(node.WorkflowList),
                               [out EXCEPT !.PluginIDs = pluginTools.val,
                                           !.KnowledgeIDs = knowledgeTools.val],
                               graph)
                 ELSE IF node.Type = NodeTypeSubWorkflow /\ node.WorkflowVersion = ""
                 THEN IF wfID.err \/ subWorkflow.err # NilError \/ subCanvas.err
                      THEN [err |-> TRUE, val |-> out]
                      ELSE collectDependence(subCanvas.val.Nodes, out, graph)
                 ELSE [err |-> FALSE, val |-> out]
         IN  IF one.err THEN one ELSE collectDependence(Tail(nodes), one.val, graph)

GetWorkflowDependenceResource ==
    /\ depPc = "call"
    /\ LET wf == GetEntity(depInput.graph, depInput.workflowID, FromDraft)
           canvas == UnmarshalString(wf.val.Canvas)
           walked == collectDependence(canvas.val.Nodes, DependenceResource(<<>>, <<>>, <<>>),
                                       depInput.graph)
       IN  IF wf.err # NilError \/ canvas.err \/ walked.err
           THEN depErr' = TRUE /\ ds' = DependenceResource(<<>>, <<>>, <<>>)
           ELSE depErr' = FALSE /\ ds' = walked.val
    /\ depPc' = "done"
    /\ UNCHANGED <<depInput, depStack>>

DepInit ==
    /\ depInput \in DepInputs
    /\ depPc = "call"
    /\ ds = DependenceResource(<<>>, <<>>, <<>>)
    /\ depErr = FALSE
    /\ depStack = <<>>

\* GetWorkflowDependenceResource is not called
DepIdle ==
    /\ depInput = [graph |-> DepDrafts(<<>>), workflowID |-> 1]
    /\ depPc = "off"
    /\ ds = DependenceResource(<<>>, <<>>, <<>>)
    /\ depErr = FALSE
    /\ depStack = <<>>

(***************************************************************************)
(* collectDependence call by call: the recursion of the closure over the   *)
(* drafts a draft calls, with the calls in progress as a stack             *)
(***************************************************************************)
\* the calls of collectDependence the stack of the goroutine has room for
MaxCalls == 5

\* drafts that call each other: 1 and 2 through sub-workflow nodes, 3 itself,
\* 4 and 5 through a draft workflow tool and a sub-workflow node; 6 calls 7
\* twice and 7 calls 8 (a diamond, no cycle), 8 uses database 7
CyclicDrafts ==
    (<<1, "">> :> Nodes(<<PluginNode("41", "5", "0"),
                          DepNode(SubWorkflowNode("42", "2", ""), NoResources)>>))
    @@ (<<2, "">> :> Nodes(<<DepNode(SubWorkflowNode("43", "1", ""), NoResources)>>))
    @@ (<<3, "">> :> Nodes(<<DepNode(SubWorkflowNode("44", "3", ""), NoResources)>>))
    @@ (<<4, "">> :> Nodes(<<DepNode(LLMNode("45", <<DraftTool("5", TRUE)>>), NoResources)>>))
    @@ (<<5, "">> :> Nodes(<<DatabaseNode("46", <<"7">>),
                             DepNode(SubWorkflowNode("47", "4", ""), NoResources)>>))
    @@ (<<6, "">> :> Nodes(<<DepNode(SubWorkflowNode("48", "7", ""), NoResources),
                             DepNode(LLMNode("49", <<DraftTool("7", TRUE)>>), NoResources)>>))
    @@ (<<7, "">> :> Nodes(<<DepNode(SubWorkflowNode("50", "8", ""), NoResources)>>))
    @@ (<<8, "">> :> Nodes(<<DatabaseNode("51", <<"7">>)>>))

CyclicInputs == {[graph |-> CyclicDrafts, workflowID |-> w] : w \in 1..8}

\* a call of collectDependence: the nodes it has not looked at yet and the
\* draft workflow tools of the LLM node it is looking at
Call(nodes) == [nodes |-> nodes, tools |-> <<>>]

\* what one node adds to the resources by itself, the workflows it calls aside
collectOwn(node, out) ==
    LET meta == NodeMetaByNodeType(node.Type)
        databases == AppendParsed(out.DatabaseIDs, node.DatabaseInfoList)
        datasets == AppendParsed(out.KnowledgeIDs, node.DatasetParam)
        pID == ParseInt(node.pluginID)
        pluginTools == AppendParsed(out.PluginIDs,
                           [k \in DOMAIN DraftOnes(node.PluginList) |->
                               DraftOnes(node.PluginList)[k].PluginID])
        knowledgeTools == AppendParsed(out.KnowledgeIDs, node.KnowledgeList)
    IN  IF meta.UseDatabase
        THEN IF Len(node.DatabaseInfoList) = 0 THEN [err |-> TRUE, val |-> out]
             ELSE [err |-> databases.err, val |-> [out EXCEPT !.DatabaseIDs = databases.val]]
        ELSE IF meta.UseKnowledge
        THEN [err |-> datasets.err, val |-> [out EXCEPT !.KnowledgeIDs = datasets.val]]
        ELSE IF meta.UsePlugin
        THEN IF pID.err THEN [err |-> TRUE, val |-> out]
             ELSE IF node.pluginVersion = "0"
             THEN [err |-> FALSE, val |-> [out EXCEPT !.PluginIDs = Append(@, pID.val)]]
             ELSE [err |-> FALSE, val |-> out]
        ELSE IF node.Type = NodeTypeLLM
        THEN IF pluginTools.err \/ knowledgeTools.err THEN [err |-> TRUE, val |-> out]
             ELSE [err |-> FALSE, val |-> [out EXCEPT !.PluginIDs = pluginTools.val,
                                                      !.KnowledgeIDs = knowledgeTools.val]]
        ELSE [err |-> FALSE, val |-> out]

\* the draft a sub-workflow node or a draft workflow tool names, fetched and parsed
DraftCanvas(graph, workflowID) ==
    LET wID == ParseInt(workflowID)
        wfe == GetEntity(graph, wID.val, FromDraft)
        parsed == UnmarshalString(wfe.val.Canvas)
    IN  [err |-> wID.err \/ wfe.err # NilError \/ parsed.err, nodes |-> parsed.val.Nodes]

\* the walk returns the error met, all calls in progress returning it
DepFail ==
    /\ depPc' = "done" /\ depErr' = TRUE /\ depStack' = <<>>
    /\ ds' = DependenceResource(<<>>, <<>>, <<>>)

\* collectDependence calls itself on the nodes of a draft; the stack of the
\* goroutine is finite and the runtime ends the process when it is used up
DepRecurse(caller, nodes) ==
    IF Len(depStack) >= MaxCalls
    THEN depPc' = "overflow" /\ UNCHANGED <<ds, depErr, depStack>>
    ELSE /\ depStack' = Append([depStack EXCEPT ![Len(depStack)] = caller], Call(nodes))
         /\ UNCHANGED <<depPc, ds, depErr>>

\* GetWorkflowDependenceResource up to its call of collectDependence
GetWorkflowDependenceResourceCall ==
    /\ depPc = "call"
    /\ LET root == DraftCanvas(depInput.graph, ToString(depInput.workflowID))
       IN  IF root.err THEN DepFail
           ELSE /\ depPc' = "walk"
                /\ depStack' = <<Call(root.nodes)>>
                /\ UNCHANGED <<ds, depErr>>
    /\ UNCHANGED depInput

\* one turn of the loop over the nodes
collectDependenceNode ==
    /\ depPc = "walk" /\ depStack # <<>>
    /\ Last(depStack).tools = <<>> /\ Last(depStack).nodes # <<>>
    /\ LET node == Head(Last(depStack).nodes)
           own == collectOwn(node, ds)
           rest == [nodes |-> Tail(Last(depStack).nodes), tools |-> <<>>]
           sub == DraftCanvas(depInput.graph, node.WorkflowID)
       IN  IF own.err THEN DepFail
           ELSE IF node.Type = NodeTypeLLM
           THEN /\ ds' = own.val
                /\ depStack' = [depStack EXCEPT ![Len(depStack)] =
                                    [rest EXCEPT !.tools = DraftOnes(node.WorkflowList)]]
                /\ UNCHANGED <<depPc, depErr>>
           ELSE IF node.Type = NodeTypeSubWorkflow /\ node.WorkflowVersion = ""
           THEN IF sub.err THEN DepFail ELSE DepRecurse(rest, sub.nodes)
           ELSE /\ ds' = own.val
                /\ depStack' = [depStack EXCEPT ![Len(depStack)] = rest]
                /\ UNCHANGED <<depPc, depErr>>
    /\ UNCHANGED depInput

\* one turn of the loop over the draft workflow tools of an LLM node
collectDependenceTool ==
    /\ depPc = "walk" /\ depStack # <<>>
    /\ Last(depStack).tools # <<>>
    /\ LET tool == DraftCanvas(depInput.graph, Head(Last(depStack).tools).WorkflowID)
           rest == [Last(depStack) EXCEPT !.tools = Tail(@)]
       IN  IF tool.err THEN DepFail ELSE DepRecurse(rest, tool.nodes)
    /\ UNCHANGED depInput

\* a call has looked at all its nodes and returns nil
collectDependenceReturn ==
    /\ depPc = "walk" /\ depStack # <<>>
    /\ Last(depStack).tools = <<>> /\ Last(depStack).nodes = <<>>
    /\ depStack' = SubSeq(depStack, 1, Len(depStack) - 1)
    /\ depPc' = IF Len(depStack) = 1 THEN "done" ELSE "walk"
    /\ UNCHANGED <<depInput, ds, depErr>>

DepWalkInit ==
    /\ depInput \in DepInputs \cup CyclicInputs
    /\ depPc = "call"
    /\ ds = DependenceResource(<<>>, <<>>, <<>>)
    /\ depErr = FALSE
    /\ depStack = <<>>

(***************************************************************************)
(* ReleaseApplicationWorkflows: the drafts of an app published as one      *)
(* version                                                                 *)
(***************************************************************************)
VARIABLES
    relInput,               \* the drafts of the app, the versions that exist and the config
    relPc,                  \* position in ReleaseApplicationWorkflows
    workflowsToPublish,     \* workflow ID -> the rewritten canvas to publish
    relRemaining,           \* the keys of workflowsToPublish the last loop has not reached
    workflowIDs,            \* the workflows whose version this release created
    relVersions,            \* the versions stored: (workflow ID, version) -> canvas
    relResult               \* what ReleaseApplicationWorkflows returned

relVars == <<relInput, relPc, workflowsToPublish, relRemaining, workflowIDs, relVersions, relResult>>

ReleaseVersion == "v1.0.0"

ReleaseApps == {AppTwoNodes, AppDiamond, AppNested, AppInvalid, AppBadID, AppIssues}

\* the versions stored before the release: none, or workflow 2 already released
ExistingVersions == {EmptyMap, <<2, ReleaseVersion>> :> MarshalString(LeafCanvas)}

ReleaseInputs ==
    UNION {[app : {a}, versions : ExistingVersions, ConnectorIDs : {<<>>, <<1>>},
            WorkflowIDs : SUBSET DOMAIN a] : a \in ReleaseApps}

\* MGet of the drafts of the app, all of them or those of ids
DraftsOfApp(a, ids) == IF ids = {} THEN DOMAIN a ELSE ids \cap DOMAIN a

\* relatedWorkflow: every draft of the app, at the version of the release
RelatedWorkflow(a) == [id \in DOMAIN a |-> [ID |-> id, Version |-> ReleaseVersion]]

\* the canvas of wf with its references rewritten, or an error
ReleaseCanvas(a, id) ==
    LET c == UnmarshalString(a[id].Canvas)
        replaced == replaceRelatedWorkflowOrExternalResourceInWorkflowNodes(
                        c.val.Nodes, RelatedWorkflow(a))
    IN  IF c.err \/ replaced.err THEN [err |-> TRUE, val |-> a[id].Canvas]
        ELSE [err |-> FALSE, val |-> MarshalString([c.val EXCEPT !.Nodes = replaced.val])]

Released(e, issues) == [returned |-> TRUE, err |-> e, vIssues |-> issues]

NotReleased == [returned |-> FALSE, err |-> FALSE, vIssues |-> {}]

\* up to the loop that creates the versions
ReleaseApplicationWorkflows ==
    /\ relPc = "call"
    /\ LET a == relInput.app
           willPublishWorkflows == DraftsOfApp(a, relInput.WorkflowIDs)
           issues == {id \in willPublishWorkflows : validateWorkflowTree(a[id].Canvas)}
       IN  IF Len(relInput.ConnectorIDs) = 0
           THEN /\ relResult' = Released(TRUE, {})
                /\ relPc' = "done"
                /\ UNCHANGED <<workflowsToPublish, relRemaining>>
           ELSE IF issues # {}
           THEN /\ relResult' = Released(FALSE, issues)
                /\ relPc' = "done"
                /\ UNCHANGED <<workflowsToPublish, relRemaining>>
           ELSE IF \E id \in willPublishWorkflows : ReleaseCanvas(a, id).err
           THEN /\ relResult' = Released(TRUE, {})
                /\ relPc' = "done"
                /\ UNCHANGED <<workflowsToPublish, relRemaining>>
           ELSE /\ workflowsToPublish' = [id \in willPublishWorkflows |-> ReleaseCanvas(a, id).val]
                /\ relRemaining' = willPublishWorkflows
                /\ relPc' = "range"
                /\ UNCHANGED relResult
    /\ UNCHANGED <<relInput, workflowIDs, relVersions>>

\* one iteration of "for id, vInfo := range workflowsToPublish"
ReleaseCreateVersion(id, createOK) ==
    /\ relPc = "range"
    /\ id \in relRemaining
    /\ LET existed == <<id, ReleaseVersion>> \in DOMAIN relVersions
           refs == canvasToRefs(id, workflowsToPublish[id])
       IN  IF existed
           THEN /\ relRemaining' = relRemaining \ {id}
                /\ UNCHANGED <<relPc, workflowIDs, relVersions, relResult>>
           ELSE IF refs.err \/ ~createOK
           THEN /\ relResult' = Released(TRUE, {})
                /\ relPc' = "done"
                /\ workflowIDs' = IF refs.err THEN workflowIDs ELSE Append(workflowIDs, id)
                /\ UNCHANGED <<relRemaining, relVersions>>
           ELSE /\ workflowIDs' = Append(workflowIDs, id)
                /\ relVersions' = (<<id, ReleaseVersion>> :> workflowsToPublish[id]) @@ relVersions
                /\ relRemaining' = relRemaining \ {id}
                /\ UNCHANGED <<relPc, relResult>>
    /\ UNCHANGED <<relInput, workflowsToPublish>>

\* the conversation template, the chat flow roles and the connectors, then the return
ReleaseReturn(othersOK) ==
    /\ relPc = "range"
    /\ relRemaining = {}
    /\ relResult' = Released(~othersOK, {})
    /\ relPc' = "done"
    /\ UNCHANGED <<relInput, workflowsToPublish, relRemaining, workflowIDs, relVersions>>

RelInit ==
    /\ relInput \in ReleaseInputs
    /\ relPc = "call"
    /\ workflowsToPublish = EmptyMap
    /\ relRemaining = {}
    /\ workflowIDs = <<>>
    /\ relVersions = relInput.versions
    /\ relResult = NotReleased

\* ReleaseApplicationWorkflows is not called
RelIdle ==
    /\ relInput = [app |-> AppTwoNodes, versions |-> EmptyMap, ConnectorIDs |-> <<>>,
                   WorkflowIDs |-> {}]
    /\ relPc = "off"
    /\ workflowsToPublish = EmptyMap
    /\ relRemaining = {}
    /\ workflowIDs = <<>>
    /\ relVersions = EmptyMap
    /\ relResult = NotReleased

(***************************************************************************)
(* ReleaseApplicationWorkflows on the store Publish writes to: the app is  *)
(* the workflows that have a draft                                         *)
(***************************************************************************)
\* config.Version of a release
ReleaseVersions == {"v0.0.2", "v0.1.0"}

\* MGet by AppID: the workflows of the app
AppWorkflows == {id \in WorkflowIDs : metas[id].exists /\ drafts[id] # NoDraft}

\* the canvas of a draft with the references into the app rewritten to the release version
ReleaseDraftCanvas(ids, id, version) ==
    LET c == UnmarshalString(drafts[id].Canvas)
        replaced == replaceRelatedWorkflowOrExternalResourceInWorkflowNodes(
                        c.val.Nodes, [w \in ids |-> [ID |-> w, Version |-> version]])
    IN  IF c.err \/ replaced.err THEN [err |-> TRUE, val |-> drafts[id].Canvas]
        ELSE [err |-> FALSE, val |-> MarshalString([c.val EXCEPT !.Nodes = replaced.val])]

\* the VersionInfo the release asks repo.CreateVersion to store
ReleaseVersionInfo(ids, id, version) ==
    [Version |-> version, Canvas |-> ReleaseDraftCanvas(ids, id, version).val,
     InputParamsStr |-> MarshalString(UnmarshalString(drafts[id].InputParamsStr).val),
     OutputParamsStr |-> MarshalString(UnmarshalString(drafts[id].OutputParamsStr).val),
     CommitID |-> drafts[id].CommitID, By |-> "Release"]

\* variant: the range skips no workflow
ReleaseSkips_Never(id, version) == FALSE

\* "if existed { continue }": the workflow has the version of the release already
ReleaseSkips(id, version) == VersionExisted(versions, id, version)

\* "for id, vInfo := range workflowsToPublish" having reached the workflows of
\* reached, in any order, when it returns: after all of them, or with the error
\* of the workflow it stopped at
ReleaseRange(ids, reached, version) ==
    LET create == {id \in reached : ~ReleaseSkips(id, version)}
        stoppedAt == {id \in ids \ reached : ~ReleaseSkips(id, version)}
        created(id) == CreateVersion(versions, metas, id, ReleaseVersionInfo(ids, id, version))
    IN  [err |-> reached # ids \/ \E id \in create : created(id).err,
         attempted |-> create \cup (IF reached # ids THEN stoppedAt ELSE {}),
         versions |-> [id \in WorkflowIDs |->
                          IF id \in create THEN created(id).versions[id] ELSE versions[id]],
         metas |-> [id \in WorkflowIDs |->
                          IF id \in create THEN created(id).metas[id] ELSE metas[id]]]

ReleaseEffect(version, reached) ==
    LET ids == AppWorkflows
        unchanged == [err |-> TRUE, attempted |-> {}, versions |-> versions, metas |-> metas]
    IN  IF \E id \in ids : validateWorkflowTree(drafts[id].Canvas)
        THEN [unchanged EXCEPT !.err = FALSE]
        ELSE IF \E id \in ids : ReleaseDraftCanvas(ids, id, version).err THEN unchanged
        ELSE ReleaseRange(ids, reached, version)

\* one ReleaseApplicationWorkflows of the app; the range stops early only at a
\* workflow whose version it has to create
Release(version, reached) ==
    /\ reached \subseteq AppWorkflows
    /\ \A id \in AppWorkflows : Len(versions[id]) < MaxVersions
    /\ (reached # AppWorkflows =>
            Cardinality({id \in AppWorkflows \ reached : ~ReleaseSkips(id, version)}) = 1)
    /\ \A id \in reached :
          \/ ReleaseSkips(id, version)
          \/ ~canvasToRefs(id, ReleaseDraftCanvas(AppWorkflows, id, version).val).err
    /\ LET r == ReleaseEffect(version, reached)
       IN  /\ versions' = r.versions
           /\ metas' = r.metas
           /\ lastCall' = [op |-> "Release", id |-> 0, err |-> r.err,
                           version |-> version, app |-> AppWorkflows,
                           attempted |-> r.attempted, versionsBefore |-> versions]
    /\ UNCHANGED <<drafts, idgen>>

(***************************************************************************)
(* AgentRunner.preHandlerInput: the parts of a message the model cannot    *)
(* take are turned into text                                               *)
(***************************************************************************)
VARIABLES
    preInput,       \* the input modalities of the model and the message
    prePc,          \* whether preHandlerInput was called
    preResult       \* the message returned

preVars == <<preInput, prePc, preResult>>

MaxParts == 3

ModalText == "Text"
ModalImage == "Image"
ModalFile == "File"
ModalAudio == "Audio"
ModalVideo == "Video"

ChatMessagePartTypeText == "text"
ChatMessagePartTypeImageURL == "image_url"
ChatMessagePartTypeFileURL == "file_url"
ChatMessagePartTypeAudioURL == "audio_url"
ChatMessagePartTypeVideoURL == "video_url"

MediaTypes ==
    {ChatMessagePartTypeImageURL, ChatMessagePartTypeFileURL,
     ChatMessagePartTypeAudioURL, ChatMessagePartTypeVideoURL}

\* schema.ChatMessagePart: a text part has Text, a media part has the URL
ChatMessagePart(type, text, url) == [Type |-> type, Text |-> text, URL |-> url]

\* a slice of parts; the nil slice is not the empty slice
Parts(parts) == [nil |-> FALSE, parts |-> parts]

NilParts == [nil |-> TRUE, parts |-> <<>>]

Message(content, multiContent) == [Content |-> content, MultiContent |-> multiContent]

\* the modality a media part needs, and the word concatContentString uses for it
ModalOf(type) ==
    CASE type = ChatMessagePartTypeImageURL -> ModalImage
      [] type = ChatMessagePartTypeFileURL -> ModalFile
      [] type = ChatMessagePartTypeAudioURL -> ModalAudio
      [] type = ChatMessagePartTypeVideoURL -> ModalVideo
      [] OTHER -> ModalText

WordOf(type) ==
    CASE type = ChatMessagePartTypeImageURL -> "image"
      [] type = ChatMessagePartTypeFileURL -> "file"
      [] type = ChatMessagePartTypeAudioURL -> "audio"
      [] type = ChatMessagePartTypeVideoURL -> "video"
      [] OTHER -> ""

\* variant: every modality is taken as supported
IsSupport_Always(inputModal, type) == TRUE

\* whether the model takes parts of this type
IsSupport(inputModal, type) == ModalOf(type) \in inputModal

\* the text followed by one "  this is a <kind>:<url>" per media part, parts
\* of any other type being passed over
RECURSIVE concatContentString(_, _)
concatContentString(textContent, unSupportTypeURL) ==
    IF unSupportTypeURL = <<>> THEN textContent
    ELSE LET part == Head(unSupportTypeURL)
         IN  concatContentString(
                 IF part.Type \in MediaTypes
                 THEN textContent \o "  this is a " \o WordOf(part.Type) \o ":" \o part.URL
                 ELSE textContent,
                 Tail(unSupportTypeURL))

\* the text of the text part of a message, "" when it has none
TextOf(parts) ==
    LET texts == SelectSeq(parts, LAMBDA p : p.Type = ChatMessagePartTypeText)
    IN  IF texts = <<>> THEN "" ELSE texts[1].Text

preHandlerInput(inputModal, input) ==
    IF Len(input.MultiContent.parts) = 0 THEN input
    ELSE LET parts == input.MultiContent.parts
             unSupport == SelectSeq(parts, LAMBDA p :
                              p.Type \in MediaTypes /\ ~IsSupport(inputModal, p.Type))
             kept == SelectSeq(parts, LAMBDA p :
                         /\ p.Type # ChatMessagePartTypeText
                         /\ ~(p.Type \in MediaTypes /\ ~IsSupport(inputModal, p.Type)))
             hasMedia == \E k \in DOMAIN kept : kept[k].Type \in MediaTypes
             hasText == \E k \in DOMAIN parts : parts[k].Type = ChatMessagePartTypeText
             text == concatContentString(TextOf(parts), unSupport)
         IN  IF hasMedia
             THEN Message(input.Content,
                          IF hasText \/ unSupport # <<>>
                          THEN Parts(Append(kept, ChatMessagePart(ChatMessagePartTypeText, text, "")))
                          ELSE Parts(kept))
             ELSE Message(text, IF kept = <<>> THEN NilParts ELSE Parts(kept))

\* createTestModel: the input modalities of the models
InputModals ==
    {{ModalText}, {ModalText, ModalImage}, {ModalText, ModalFile, ModalAudio},
     {ModalText, ModalImage, ModalFile, ModalAudio, ModalVideo}}

MediaParts ==
    {ChatMessagePart(ChatMessagePartTypeImageURL, "", "http://example.com/image.jpg"),
     ChatMessagePart(ChatMessagePartTypeFileURL, "", "http://example.com/document.pdf"),
     ChatMessagePart(ChatMessagePartTypeAudioURL, "", "http://example.com/audio.mp3"),
     ChatMessagePart(ChatMessagePartTypeVideoURL, "", "http://example.com/video.mp4"),
     ChatMessagePart("unknown_type", "unknown content", "")}

\* messages of up to MaxParts media parts followed by a text part or by none,
\* and the messages without parts
PreMessages ==
    {Message("test message", NilParts), Message("test message", Parts(<<>>))}
    \cup {Message("", Parts(ps)) : ps \in UNION {[1..n -> MediaParts] : n \in 1..MaxParts}}
    \cup {Message("", Parts(Append(ps, ChatMessagePart(ChatMessagePartTypeText, "normal text", "")))) :
             ps \in UNION {[1..n -> MediaParts] : n \in 0..MaxParts}}

PreInputs == {[inputModal |-> m, input |-> msg] : m \in InputModals, msg \in PreMessages}

PreHandlerInput ==
    /\ prePc = "call"
    /\ preResult' = preHandlerInput(preInput.inputModal, preInput.input)
    /\ prePc' = "done"
    /\ UNCHANGED preInput

PreInit ==
    /\ preInput \in PreInputs
    /\ prePc = "call"
    /\ preResult = Message("", NilParts)

\* preHandlerInput is not called
PreIdle ==
    /\ preInput = [inputModal |-> {ModalText}, input |-> Message("", NilParts)]
    /\ prePc = "off"
    /\ preResult = Message("", NilParts)

(***************************************************************************)
(* ModelForLLM: the chat model of an LLM node and its fallback             *)
(***************************************************************************)
VARIABLES
    llmInput,               \* the constructor called and the models it was given
    llmModel,               \* the ModelForLLM in use
    exeCtx,                 \* what execute.GetExeCtx(ctx) returns
    llmLast                 \* the last call on the ModelForLLM and what it did

llmVars == <<llmInput, llmModel, exeCtx, llmLast>>

MaxRetryCount == 2

\* a chat model: whether it is a ToolCallingChatModel, whether it runs the
\* callbacks itself, and the tools bound to it
ChatModel(name, toolCalling, callbacksEnabled) ==
    [name |-> name, toolCalling |-> toolCalling, callbacksEnabled |-> callbacksEnabled,
     tools |-> <<>>]

NilModel == ChatModel("", FALSE, FALSE)

ModelInfo(name) == [Name |-> name]

NilInfo == ModelInfo("")

\* components.IsCallbacksEnabled
IsCallbacksEnabled(m) == m.callbacksEnabled

NilExeCtx == [nil |-> TRUE, NodeCtx |-> FALSE, CurrentRetryCount |-> 0]

\* NodeCtx: whether exeCtx.NodeCtx is set
ExeCtx(nodeCtx, retryCount) == [nil |-> FALSE, NodeCtx |-> nodeCtx, CurrentRetryCount |-> retryCount]

\* variant: the fallback is used on a retry also outside a node
RetryUsesFallback_AnyContext(ctx) == ~ctx.nil /\ ctx.CurrentRetryCount > 0

\* the UseFallback of NewModelWithFallback
RetryUsesFallback(ctx) ==
    IF ctx.nil \/ ~ctx.NodeCtx THEN FALSE
    ELSE ctx.CurrentRetryCount > 0

NewModel(m, info) ==
    [Model |-> m, MInfo |-> info, FallbackModel |-> NilModel, FallbackInfo |-> NilInfo,
     UseFallback |-> "never",
     modelEnableCallback |-> IsCallbacksEnabled(m), fallbackEnableCallback |-> FALSE]

NewModelWithFallback(m, f, info, fInfo) ==
    [Model |-> m, MInfo |-> info, FallbackModel |-> f, FallbackInfo |-> fInfo,
     UseFallback |-> "onRetry",
     modelEnableCallback |-> IsCallbacksEnabled(m),
     fallbackEnableCallback |-> IsCallbacksEnabled(f)]

\* m.UseFallback(ctx)
UseFallback(m, ctx) == IF m.UseFallback = "onRetry" THEN RetryUsesFallback(ctx) ELSE FALSE

\* Generate: the model that answers, and whether the callbacks are run around it
Generate(m, ctx) ==
    IF UseFallback(m, ctx)
    THEN [by |-> m.FallbackModel, callbacks |-> ~m.fallbackEnableCallback]
    ELSE [by |-> m.Model, callbacks |-> ~m.modelEnableCallback]

\* Stream: as Generate, with the stream variants of the calls
Stream(m, ctx) ==
    IF UseFallback(m, ctx)
    THEN [by |-> m.FallbackModel, callbacks |-> ~m.fallbackEnableCallback]
    ELSE [by |-> m.Model, callbacks |-> ~m.modelEnableCallback]

Info(m, ctx) == IF UseFallback(m, ctx) THEN m.FallbackInfo ELSE m.MInfo

\* WithTools: a new ModelForLLM over the models with the tools bound, or an error
WithTools(m, tools) ==
    IF ~m.Model.toolCalling THEN [err |-> TRUE, val |-> m]
    ELSE IF m.FallbackModel # NilModel /\ ~m.FallbackModel.toolCalling THEN [err |-> TRUE, val |-> m]
    ELSE [err |-> FALSE,
          val |-> [Model |-> [m.Model EXCEPT !.tools = tools],
                   MInfo |-> m.MInfo,
                   FallbackModel |-> IF m.FallbackModel # NilModel
                                     THEN [m.FallbackModel EXCEPT !.tools = tools]
                                     ELSE NilModel,
                   FallbackInfo |-> m.FallbackInfo,
                   UseFallback |-> m.UseFallback,
                   modelEnableCallback |-> m.modelEnableCallback,
                   fallbackEnableCallback |-> m.fallbackEnableCallback]]

PrimaryModels == {ChatModel("primary", tc, cb) : tc, cb \in BOOLEAN}

FallbackModels == {ChatModel("fallback", TRUE, TRUE), ChatModel("fallback", TRUE, FALSE),
                   ChatModel("fallback", FALSE, TRUE)}

LLMInputs ==
    {[ctor |-> "NewModel", m |-> p, f |-> NilModel] : p \in PrimaryModels}
    \cup {[ctor |-> "NewModelWithFallback", m |-> p, f |-> f] : p \in PrimaryModels, f \in FallbackModels}

ToolLists == {<<"t1">>, <<"t1", "t2">>}

NoCall == [op |-> "", err |-> FALSE, by |-> NilModel, callbacks |-> FALSE, info |-> NilInfo]

LLMGenerate ==
    /\ llmInput.ctor # ""
    /\ llmLast' = [NoCall EXCEPT !.op = "Generate",
                                 !.by = Generate(llmModel, exeCtx).by,
                                 !.callbacks = Generate(llmModel, exeCtx).callbacks]
    /\ UNCHANGED <<llmInput, llmModel, exeCtx>>

LLMStream ==
    /\ llmInput.ctor # ""
    /\ llmLast' = [NoCall EXCEPT !.op = "Stream",
                                 !.by = Stream(llmModel, exeCtx).by,
                                 !.callbacks = Stream(llmModel, exeCtx).callbacks]
    /\ UNCHANGED <<llmInput, llmModel, exeCtx>>

LLMInfo ==
    /\ llmInput.ctor # ""
    /\ llmLast' = [NoCall EXCEPT !.op = "Info", !.info = Info(llmModel, exeCtx)]
    /\ UNCHANGED <<llmInput, llmModel, exeCtx>>

LLMWithTools(tools) ==
    /\ llmInput.ctor # ""
    /\ llmModel' = WithTools(llmModel, tools).val
    /\ llmLast' = [NoCall EXCEPT !.op = "WithTools", !.err = WithTools(llmModel, tools).err]
    /\ UNCHANGED <<llmInput, exeCtx>>

\* the attempt of the node has failed and the node is run again
LLMRetry ==
    /\ llmLast.op \in {"Generate", "Stream"}
    /\ ~exeCtx.nil
    /\ exeCtx.CurrentRetryCount < MaxRetryCount
    /\ exeCtx' = [exeCtx EXCEPT !.CurrentRetryCount = @ + 1]
    /\ llmLast' = NoCall
    /\ UNCHANGED <<llmInput, llmModel>>

LLMInit ==
    /\ llmInput \in LLMInputs
    /\ llmModel = IF llmInput.ctor = "NewModel"
                  THEN NewModel(llmInput.m, ModelInfo(llmInput.m.name))
                  ELSE NewModelWithFallback(llmInput.m, llmInput.f, ModelInfo(llmInput.m.name),
                                            ModelInfo(llmInput.f.name))
    /\ exeCtx \in {NilExeCtx, ExeCtx(FALSE, 0), ExeCtx(TRUE, 0)}
    /\ llmLast = NoCall

\* no ModelForLLM is built
LLMIdle ==
    /\ llmInput = [ctor |-> "", m |-> NilModel, f |-> NilModel]
    /\ llmModel = NewModel(NilModel, NilInfo)
    /\ exeCtx = NilExeCtx
    /\ llmLast = NoCall

(***************************************************************************)
(* User sessions: Login, Logout and ValidateSession                        *)
(***************************************************************************)
VARIABLES
    users,                  \* UserRepo: user ID -> the row of the user
    now,                    \* time.Now()
    nextSessionID,          \* the next ID of IDGen
    issued,                 \* the writes of a session key, in order: who, which key, by what
    sessLast                \* the last call and what it returned

userVars == <<users, now, nextSessionID, issued, sessLast>>

MaxLogins == 2

\* consts.DefaultSessionDuration, in ticks of the clock
DefaultSessionDuration == 1

\* the clock runs until a key of the first tick has expired
LastTick == DefaultSessionDuration + 1

\* the Session of user_impl.go
Session(id, createdAt, expiresAt) == [ID |-> id, CreatedAt |-> createdAt, ExpiresAt |-> expiresAt]

\* HMAC-SHA256 under hmacSecret: a function of the data alone
Hmac(sessionData) == [hmac |-> sessionData]

\* a session key: base64 of the marshalled Session followed by 32 bytes of signature
SessionKey(sessionData, signature) ==
    [wellFormed |-> TRUE, sessionData |-> sessionData, signature |-> signature]

\* a string that is no base64, or decodes to fewer than 32 bytes: the empty key
\* of a user without a session among them
NoKey == [wellFormed |-> FALSE, sessionData |-> Session(0, 0, 0), signature |-> Hmac(Session(0, 0, 0))]

generateSessionKey(sessionID, t) ==
    SessionKey(Session(sessionID, t, t + DefaultSessionDuration),
               Hmac(Session(sessionID, t, t + DefaultSessionDuration)))

verifySessionKey(sessionKey, t) ==
    IF ~sessionKey.wellFormed THEN [err |-> "invalid session format", val |-> sessionKey.sessionData]
    ELSE IF sessionKey.signature # Hmac(sessionKey.sessionData)
    THEN [err |-> "invalid session signature", val |-> sessionKey.sessionData]
    ELSE IF t > sessionKey.sessionData.ExpiresAt
    THEN [err |-> "session expired", val |-> sessionKey.sessionData]
    ELSE [err |-> "", val |-> sessionKey.sessionData]

\* the Argon2id hash of a password
hashPassword(password) == [argon2id |-> password]

verifyPassword(password, encodedHash) == encodedHash = hashPassword(password)

UserRow(email, password) == [Email |-> email, Password |-> hashPassword(password), SessionKey |-> NoKey]

UserRows == (1 :> UserRow("a@x", "p1")) @@ (2 :> UserRow("b@x", "p2"))

\* the two users with their passwords, a wrong password, an unknown email
Credentials == {<<"a@x", "p1">>, <<"b@x", "p2">>, <<"a@x", "p2">>, <<"c@x", "p1">>}

\* UserRepo.GetUsersByEmail
GetUsersByEmail(rows, email) == {id \in DOMAIN rows : rows[id].Email = email}

\* UserRepo.GetUserBySessionKey
GetUserBySessionKey(rows, sessionKey) == {id \in DOMAIN rows : rows[id].SessionKey = sessionKey}

\* UserRepo.UpdateSessionKey
UpdateSessionKey(rows, userID, sessionKey) == [rows EXCEPT ![userID].SessionKey = sessionKey]

\* variant: Logout leaves the key of the user in place
ClearSessionKey_Keep(rows, userID) == rows

\* UserRepo.ClearSessionKey
ClearSessionKey(rows, userID) == [rows EXCEPT ![userID].SessionKey = NoKey]

ErrUserInfoInvalidateCode == "ErrUserInfoInvalidateCode"
ErrUserAuthenticationFailed == "ErrUserAuthenticationFailed"

\* what ValidateSession returns for a key at time t
ValidateSession(rows, sessionKey, t) ==
    LET sessionModel == verifySessionKey(sessionKey, t)
        found == GetUserBySessionKey(rows, sessionKey)
    IN  IF sessionModel.err # ""
        THEN [err |-> ErrUserAuthenticationFailed, exist |-> FALSE, UserID |-> 0]
        ELSE IF found = {} THEN [err |-> "", exist |-> FALSE, UserID |-> 0]
        ELSE [err |-> "", exist |-> TRUE, UserID |-> CHOOSE id \in found : TRUE]

SessionCall(name, errText, userID, sessionKey, exist) ==
    [op |-> name, err |-> errText, UserID |-> userID, key |-> sessionKey, exist |-> exist]

NoSessionCall == SessionCall("", "", 0, NoKey, FALSE)

LoginOutcomes == {"ok", "UpdateSessionKey fails", "GetObjectUrl fails"}

Login(email, password, outcome) ==
    /\ sessLast.op # "off"
    /\ nextSessionID <= MaxLogins
    /\ LET found == GetUsersByEmail(users, email)
           userID == CHOOSE id \in found : TRUE
           sessionKey == generateSessionKey(nextSessionID, now)
       IN  IF found = {} \/ ~verifyPassword(password, users[userID].Password)
           THEN /\ sessLast' = SessionCall("Login", ErrUserInfoInvalidateCode, 0, NoKey, FALSE)
                /\ UNCHANGED <<users, nextSessionID, issued>>
           ELSE IF outcome = "UpdateSessionKey fails"
           THEN /\ sessLast' = SessionCall("Login", outcome, userID, NoKey, FALSE)
                /\ nextSessionID' = nextSessionID + 1
                /\ UNCHANGED <<users, issued>>
           ELSE /\ users' = UpdateSessionKey(users, userID, sessionKey)
                /\ nextSessionID' = nextSessionID + 1
                /\ issued' = Append(issued, [UserID |-> userID, key |-> sessionKey,
                                             returned |-> outcome = "ok"])
                /\ sessLast' = IF outcome = "ok"
                               THEN SessionCall("Login", "", userID, sessionKey, TRUE)
                               ELSE SessionCall("Login", outcome, userID, NoKey, FALSE)
    /\ UNCHANGED now

Logout(userID, cleared) ==
    /\ sessLast.op # "off"
    /\ IF cleared
       THEN /\ users' = ClearSessionKey(users, userID)
            /\ sessLast' = SessionCall("Logout", "", userID, NoKey, FALSE)
       ELSE /\ sessLast' = SessionCall("Logout", "ClearSessionKey fails", userID, NoKey, FALSE)
            /\ UNCHANGED users
    /\ UNCHANGED <<now, nextSessionID, issued>>

\* a key whose data was changed after it was signed: the expiry moved out
Tampered(sessionKey) ==
    [sessionKey EXCEPT !.sessionData.ExpiresAt = LastTick + 1]

\* a key signed for data no Login produced
Forged(sessionKey) ==
    SessionKey(Tampered(sessionKey).sessionData, Hmac(Tampered(sessionKey).sessionData))

IssuedKeys == {issued[k].key : k \in DOMAIN issued}

\* the keys a caller may present
PresentedKeys ==
    IssuedKeys \cup {Tampered(k) : k \in IssuedKeys} \cup {Forged(k) : k \in IssuedKeys} \cup {NoKey}

Validate(sessionKey) ==
    /\ sessLast.op # "off"
    /\ LET r == ValidateSession(users, sessionKey, now)
       IN  sessLast' = SessionCall("ValidateSession", r.err, r.UserID, sessionKey, r.exist)
    /\ UNCHANGED <<users, now, nextSessionID, issued>>

\* time passes
Tick ==
    /\ sessLast.op # "off"
    /\ now < LastTick
    /\ now' = now + 1
    /\ UNCHANGED <<users, nextSessionID, issued, sessLast>>

UserInit ==
    /\ users = UserRows
    /\ now = 0
    /\ nextSessionID = 1
    /\ issued = <<>>
    /\ sessLast = NoSessionCall

\* no user calls
UserIdle ==
    /\ users = UserRows
    /\ now = 0
    /\ nextSessionID = 1
    /\ issued = <<>>
    /\ sessLast = SessionCall("off", "", 0, NoKey, FALSE)

(***************************************************************************)
(* Specifications                                                          *)
(***************************************************************************)
DraftInit ==
    /\ metas = [id \in WorkflowIDs |-> [exists |-> FALSE, LatestPublishedVersion |-> NoVersion]]
    /\ drafts = [id \in WorkflowIDs |-> NoDraft]
    /\ versions = [id \in WorkflowIDs |-> <<>>]
    /\ idgen = 0
    /\ lastCall = [op |-> "none", id |-> 0, err |-> FALSE]

vars == <<draftVars, copyVars, runVars, syncVars, checkVars, treeVars, refsVars, depVars, relVars, preVars, llmVars, userVars>>

\* the closure copy stays idle
CopyIdle ==
    /\ app = AppTwoNodes
    /\ op = [kind |-> "none", root |-> 0]
    /\ pc = "off"
    /\ tree = {}
    /\ stack = <<>>
    /\ memo = EmptyMap
    /\ copiedWorkflowArray = <<>>
    /\ repoCopies = <<>>
    /\ repoVersions = <<>>
    /\ remaining = {}
    /\ hasVerifiedWorkflowIDMap = {}
    /\ vIssues = <<>>
    /\ copyGen = 10
    /\ copyResult = NoResult

\* no workflow is run
RunIdle ==
    /\ fixture = [ws |-> DirectSchema, in |-> NoInput, answer |-> ""]
    /\ store = [c \in CheckPointIDs |-> NoCheckpoint]
    /\ run = [NoRun EXCEPT !.status = "off"]
    /\ execCount = [c \in CheckPointIDs |-> [k \in NodeKeys |-> 0]]
    /\ invokeResult = Returned(NoOutput, NoError)
    /\ lastInvoke = [in |-> NoInput, checkPointID |-> "", stateModifier |-> EmptyMap,
                     found |-> NoCheckpoint, known |-> FALSE]
    /\ finished = {}

Init == DraftInit /\ CopyIdle /\ RunIdle /\ SyncIdle /\ CheckIdle /\ TreeIdle /\ RefsIdle /\ DepIdle /\ RelIdle /\ PreIdle /\ LLMIdle /\ UserIdle

\* what the draft lifecycle leaves alone, and what the closure copy leaves alone
OutsideDrafts == UNCHANGED <<copyVars, runVars, syncVars, checkVars, treeVars, refsVars, depVars, relVars, preVars, llmVars, userVars>>

OutsideCopy == UNCHANGED <<draftVars, runVars, syncVars, checkVars, treeVars, refsVars, depVars, relVars, preVars, llmVars, userVars>>

OutsideRun == UNCHANGED <<draftVars, copyVars, syncVars, checkVars, treeVars, refsVars, depVars, relVars, preVars, llmVars, userVars>>

OutsideSync == UNCHANGED <<draftVars, copyVars, runVars, checkVars, treeVars, refsVars, depVars, relVars, preVars, llmVars, userVars>>

Next ==
    \/ \E id \in WorkflowIDs, schema \in SaveInputs, metaOK, genOK \in BOOLEAN :
          Create(id, schema, metaOK, genOK) /\ OutsideDrafts
    \/ \E id \in WorkflowIDs, schema \in SaveInputs, genOK \in BOOLEAN :
          Save(id, schema, genOK) /\ OutsideDrafts
    \/ \E id \in WorkflowIDs : UpdateWorkflowDraftTestRunSuccess(id) /\ OutsideDrafts

\* the draft lifecycle: Create, Save and test runs
Spec == Init /\ [][Next]_vars

PublishSaveInputs ==
    {MarshalString(c) : c \in {d \in SaveCanvases : d.Layout = 0 /\ ~CanvasToWorkflowSchema(d).err}}

NextPublish ==
    \/ \E id \in PublishWorkflowIDs, schema \in PublishSaveInputs :
          Create(id, schema, TRUE, TRUE) /\ OutsideDrafts
    \/ \E id \in PublishWorkflowIDs, schema \in PublishSaveInputs :
          Save(id, schema, TRUE) /\ OutsideDrafts
    \/ \E id \in PublishWorkflowIDs : UpdateWorkflowDraftTestRunSuccess(id) /\ OutsideDrafts
    \/ \E policy \in PublishPolicies : Publish(policy) /\ OutsideDrafts

\* publishing versions of drafts that are saved and test-run in between
SpecPublish == Init /\ [][NextPublish]_vars

InitCopy == DraftInit /\ CopyInit /\ RunIdle /\ SyncIdle /\ CheckIdle /\ TreeIdle /\ RefsIdle /\ DepIdle /\ RelIdle /\ PreIdle /\ LLMIdle /\ UserIdle

NextCopy ==
    \/ \E workflowID \in DOMAIN app : CopyWorkflowFromAppToLibrary(workflowID) /\ OutsideCopy
    \/ DuplicateWorkflowsByAppID /\ OutsideCopy
    \/ duplicateWorkflowProcess /\ OutsideCopy
    \/ \E conversationsOK \in BOOLEAN : DuplicateReturn(conversationsOK) /\ OutsideCopy
    \/ buildWorkflowReference_Return /\ OutsideCopy
    \/ buildWorkflowReference_Blocks /\ OutsideCopy
    \/ buildWorkflowReference_Ref /\ OutsideCopy
    \/ processRefWfs /\ OutsideCopy
    \/ \E fail \in RepoFailures : copyAndPublishWorkflowProcess(fail) /\ OutsideCopy
    \/ \E fail \in RepoFailures \ {"CreateVersion"} : duplicateWorkflow(fail) /\ OutsideCopy

\* one CopyWorkflowFromAppToLibrary or DuplicateWorkflowsByAppID on one app
SpecCopy == InitCopy /\ [][NextCopy]_vars

InitCycle == DraftInit /\ CycleInit /\ RunIdle /\ SyncIdle /\ CheckIdle /\ TreeIdle /\ RefsIdle /\ DepIdle /\ RelIdle /\ PreIdle /\ LLMIdle /\ UserIdle

\* the same operations on an app with cyclic references
SpecCycle == InitCycle /\ [][NextCopy]_vars

InitRun == DraftInit /\ CopyIdle /\ RunInit /\ SyncIdle /\ CheckIdle /\ TreeIdle /\ RefsIdle /\ DepIdle /\ RelIdle /\ PreIdle /\ LLMIdle /\ UserIdle

NextRun ==
    \/ \E in \in {NoInput, fixture.in}, checkPointID \in CheckPointIDs,
          stateModifier \in StateModifiers :
          Invoke(in, checkPointID, stateModifier) /\ OutsideRun
    \/ \E checkPointID \in CheckPointIDs :
          InvokeKnowingAnswer(fixture.in, checkPointID, fixture.answer) /\ OutsideRun
    \/ EntryNode /\ OutsideRun
    \/ \E reply \in ChatReplies : QuestionAnswerNode(reply) /\ OutsideRun
    \/ LambdaNode /\ OutsideRun
    \/ ExitNode /\ OutsideRun

\* runs of one workflow with a QuestionAnswer node, suspended and resumed
SpecRun == InitRun /\ [][NextRun]_vars

InitRunQA == DraftInit /\ CopyIdle /\ QAInit /\ SyncIdle /\ CheckIdle /\ TreeIdle /\ RefsIdle /\ DepIdle /\ RelIdle /\ PreIdle /\ LLMIdle /\ UserIdle

NextRunQA ==
    \/ \E in \in {NoInput, fixture.in}, checkPointID \in CheckPointIDs,
          stateModifier \in QAStateModifiers :
          Invoke(in, checkPointID, stateModifier) /\ OutsideRun
    \/ EntryNode /\ OutsideRun
    \/ \E reply \in ChatReplies : QuestionAnswerNode(reply) /\ OutsideRun
    \/ LambdaNode /\ OutsideRun
    \/ ExitNode /\ OutsideRun

\* runs of the workflows with dynamic choices and with extraction from the answer
SpecRunQA == InitRunQA /\ [][NextRunQA]_vars

InitSync == DraftInit /\ CopyIdle /\ RunIdle /\ SyncInit /\ CheckIdle /\ TreeIdle /\ RefsIdle /\ DepIdle /\ RelIdle /\ PreIdle /\ LLMIdle /\ UserIdle

NextSync ==
    \/ SyncRelatedWorkflowResources /\ OutsideSync
    \/ SyncRange /\ OutsideSync
    \/ SyncWait /\ OutsideSync
    \/ \E wid \in DOMAIN tasks : TaskUnmarshal(wid) /\ OutsideSync
    \/ \E wid \in DOMAIN tasks : TaskReplace(wid) /\ OutsideSync
    \/ \E wid \in DOMAIN tasks : TaskCheck(wid) /\ OutsideSync
    \/ SyncReturn /\ OutsideSync

\* one SyncRelatedWorkflowResources on the drafts of one app
SpecSync == InitSync /\ [][NextSync]_vars

OutsideCheck == UNCHANGED <<draftVars, copyVars, runVars, syncVars, treeVars, refsVars, depVars, relVars, preVars, llmVars, userVars>>

InitCheck == DraftInit /\ CopyIdle /\ RunIdle /\ SyncIdle /\ CheckInit /\ TreeIdle /\ RefsIdle /\ DepIdle /\ RelIdle /\ PreIdle /\ LLMIdle /\ UserIdle

NextCheck ==
    \/ WorkflowSchemaCheck /\ OutsideCheck
    \/ CheckBegin /\ OutsideCheck
    \/ ValidateNode /\ OutsideCheck
    \/ CheckEnd /\ OutsideCheck
    \/ CheckReturn /\ OutsideCheck

\* one WorkflowSchemaCheck over one reference graph
SpecCheck == InitCheck /\ [][NextCheck]_vars

\* the same, the call never stopping between two of its statements
SpecCheckLive == SpecCheck /\ WF_vars(NextCheck)

OutsideTree == UNCHANGED <<draftVars, copyVars, runVars, syncVars, checkVars, refsVars, depVars, relVars, preVars, llmVars, userVars>>

InitTree == DraftInit /\ CopyIdle /\ RunIdle /\ SyncIdle /\ CheckIdle /\ TreeInit /\ RefsIdle /\ DepIdle /\ RelIdle /\ PreIdle /\ LLMIdle /\ UserIdle

NextTree ==
    \/ ValidateTree /\ OutsideTree
    \/ \E wf \in workflows : ValidateSubWorkflow(wf) /\ OutsideTree
    \/ ValidateTreeReturn /\ OutsideTree

\* one ValidateTree of one canvas
SpecTree == InitTree /\ [][NextTree]_vars

OutsideRefs == UNCHANGED <<draftVars, copyVars, runVars, syncVars, checkVars, treeVars, depVars, relVars, preVars, llmVars, userVars>>

InitRefs == DraftInit /\ CopyIdle /\ RunIdle /\ SyncIdle /\ CheckIdle /\ TreeIdle /\ RefsInit /\ DepIdle /\ RelIdle /\ PreIdle /\ LLMIdle /\ UserIdle

NextRefs == CanvasToRefs /\ OutsideRefs

\* one canvasToRefs of one canvas
SpecRefs == InitRefs /\ [][NextRefs]_vars

OutsideDep == UNCHANGED <<draftVars, copyVars, runVars, syncVars, checkVars, treeVars, refsVars, relVars, preVars, llmVars, userVars>>

InitDep == DraftInit /\ CopyIdle /\ RunIdle /\ SyncIdle /\ CheckIdle /\ TreeIdle /\ RefsIdle /\ DepInit /\ RelIdle /\ PreIdle /\ LLMIdle /\ UserIdle

NextDep == GetWorkflowDependenceResource /\ OutsideDep

\* one GetWorkflowDependenceResource of one draft
SpecDep == InitDep /\ [][NextDep]_vars

InitDepWalk == DraftInit /\ CopyIdle /\ RunIdle /\ SyncIdle /\ CheckIdle /\ TreeIdle /\ RefsIdle /\ DepWalkInit /\ RelIdle /\ PreIdle /\ LLMIdle /\ UserIdle

NextDepWalk ==
    \/ GetWorkflowDependenceResourceCall /\ OutsideDep
    \/ collectDependenceNode /\ OutsideDep
    \/ collectDependenceTool /\ OutsideDep
    \/ collectDependenceReturn /\ OutsideDep

\* the dependency collection call by call; every call in progress goes on
SpecDepWalk == InitDepWalk /\ [][NextDepWalk]_vars /\ WF_vars(NextDepWalk)

OutsideRelease == UNCHANGED <<draftVars, copyVars, runVars, syncVars, checkVars, treeVars, refsVars, depVars, preVars, llmVars, userVars>>

InitRelease == DraftInit /\ CopyIdle /\ RunIdle /\ SyncIdle /\ CheckIdle /\ TreeIdle /\ RefsIdle /\ DepIdle /\ RelInit /\ PreIdle /\ LLMIdle /\ UserIdle

NextRelease ==
    \/ ReleaseApplicationWorkflows /\ OutsideRelease
    \/ \E id \in relRemaining, createOK \in BOOLEAN : ReleaseCreateVersion(id, createOK) /\ OutsideRelease
    \/ \E othersOK \in BOOLEAN : ReleaseReturn(othersOK) /\ OutsideRelease

\* one ReleaseApplicationWorkflows of one app
SpecRelease == InitRelease /\ [][NextRelease]_vars

\* forced publishes of the current draft
VersionPolicies == {policy \in PublishPolicies : policy.Force /\ policy.CommitID = ""}

NextVersions ==
    \/ \E id \in PublishWorkflowIDs, schema \in PublishSaveInputs :
          Create(id, schema, TRUE, TRUE) /\ OutsideDrafts
    \/ \E id \in PublishWorkflowIDs, schema \in PublishSaveInputs :
          Save(id, schema, TRUE) /\ OutsideDrafts
    \/ \E policy \in VersionPolicies : Publish(policy) /\ OutsideDrafts
    \/ \E version \in ReleaseVersions, reached \in SUBSET WorkflowIDs :
          Release(version, reached) /\ OutsideDrafts

\* versions created by Publish and by releases of the app, on one store
SpecVersions == Init /\ [][NextVersions]_vars

NextParams ==
    \/ \E id \in WorkflowIDs, schema \in PartialInputs, metaOK, genOK \in BOOLEAN :
          Create(id, schema, metaOK, genOK) /\ OutsideDrafts
    \/ \E id \in WorkflowIDs, schema \in PartialInputs, genOK \in BOOLEAN :
          Save(id, schema, genOK) /\ OutsideDrafts

\* Create and Save of unfinished canvases
SpecParams == Init /\ [][NextParams]_vars

NextFlag ==
    \/ \E id \in WorkflowIDs, schema \in SaveInputs :
          Create(id, schema, TRUE, TRUE) /\ OutsideDrafts
    \/ \E id \in WorkflowIDs, schema \in SaveInputs, genOK \in BOOLEAN :
          Save(id, schema, genOK) /\ OutsideDrafts
    \/ \E id \in WorkflowIDs : UpdateWorkflowDraftTestRunSuccess(id) /\ OutsideDrafts
    \/ \E id \in WorkflowIDs, related \in SyncRelated : SyncDraft(id, related) /\ OutsideDrafts

\* the draft lifecycle with the drafts rewritten by SyncRelatedWorkflowResources
SpecFlag == Init /\ [][NextFlag]_vars

NextGate ==
    \/ \E id \in PublishWorkflowIDs, schema \in GateInputs :
          Create(id, schema, TRUE, TRUE) /\ OutsideDrafts
    \/ \E id \in PublishWorkflowIDs, schema \in GateInputs :
          Save(id, schema, TRUE) /\ OutsideDrafts
    \/ \E id \in PublishWorkflowIDs : UpdateWorkflowDraftTestRunSuccess(id) /\ OutsideDrafts
    \/ \E policy \in GatePolicies : Publish(policy) /\ OutsideDrafts

\* publishing drafts that call other workflows, by commit ID, forced or not
SpecGate == Init /\ [][NextGate]_vars

OutsidePre == UNCHANGED <<draftVars, copyVars, runVars, syncVars, checkVars, treeVars, refsVars, depVars, relVars, llmVars, userVars>>

InitPre == DraftInit /\ CopyIdle /\ RunIdle /\ SyncIdle /\ CheckIdle /\ TreeIdle /\ RefsIdle /\ DepIdle /\ RelIdle /\ PreInit /\ LLMIdle /\ UserIdle

NextPre == PreHandlerInput /\ OutsidePre

\* one preHandlerInput of one message
SpecPre == InitPre /\ [][NextPre]_vars

OutsideLLM == UNCHANGED <<draftVars, copyVars, runVars, syncVars, checkVars, treeVars, refsVars, depVars, relVars, preVars, userVars>>

InitLLM == DraftInit /\ CopyIdle /\ RunIdle /\ SyncIdle /\ CheckIdle /\ TreeIdle /\ RefsIdle /\ DepIdle /\ RelIdle /\ PreIdle /\ LLMInit /\ UserIdle

NextLLM ==
    \/ LLMGenerate /\ OutsideLLM
    \/ LLMStream /\ OutsideLLM
    \/ LLMInfo /\ OutsideLLM
    \/ \E tools \in ToolLists : LLMWithTools(tools) /\ OutsideLLM
    \/ LLMRetry /\ OutsideLLM

\* one ModelForLLM over the attempts of its node
SpecLLM == InitLLM /\ [][NextLLM]_vars

OutsideUser == UNCHANGED <<draftVars, copyVars, runVars, syncVars, checkVars, treeVars, refsVars, depVars, relVars, preVars, llmVars>>

InitUser == DraftInit /\ CopyIdle /\ RunIdle /\ SyncIdle /\ CheckIdle /\ TreeIdle /\ RefsIdle /\ DepIdle /\ RelIdle /\ PreIdle /\ LLMIdle /\ UserInit

NextUser ==
    \/ \E credentials \in Credentials, outcome \in LoginOutcomes :
          Login(credentials[1], credentials[2], outcome) /\ OutsideUser
    \/ \E userID \in DOMAIN UserRows, cleared \in BOOLEAN : Logout(userID, cleared) /\ OutsideUser
    \/ \E sessionKey \in PresentedKeys : Validate(sessionKey) /\ OutsideUser
    \/ Tick /\ OutsideUser

\* the sessions of two users over time
SpecUser == InitUser /\ [][NextUser]_vars

(***************************************************************************)
(* Claims about Save                                                       *)
(***************************************************************************)
IsSaveCall == lastCall.op \in {"Save", "Create"} /\ ~lastCall.err

SavedSchema == CanvasToWorkflowSchema(UnmarshalString(lastCall.schema).val)

ExistedSchema == CanvasToWorkflowSchema(UnmarshalString(lastCall.existedDraft.Canvas).val)

SameCompiledSchema ==
    /\ lastCall.existedDraft # NoDraft
    /\ ~SavedSchema.err
    /\ ~ExistedSchema.err
    /\ IsEqual(ExistedSchema.sc, SavedSchema.sc)

\* C5: a Save whose canvas compiles to the schema the previous draft compiles to
\* gives the new draft the previous draft's TestRunSuccess
C5_SaveCarriesFlagForward ==
    (IsSaveCall /\ SameCompiledSchema)
        => drafts[lastCall.id].TestRunSuccess = lastCall.existedDraft.TestRunSuccess

\* a true flag survived a Save whose canvas text differs from the previous draft's
C5_Witness ==
    /\ lastCall.op = "Save" /\ ~lastCall.err
    /\ SameCompiledSchema
    /\ lastCall.existedDraft.Canvas # lastCall.schema
    /\ lastCall.existedDraft.TestRunSuccess
    /\ drafts[lastCall.id].TestRunSuccess

\* C6: after a Save the flag is false when the new canvas does not compile, there
\* was no previous draft, the previous draft does not compile, or the schemas differ
C6_SaveResetsFlag ==
    (IsSaveCall /\ ~SameCompiledSchema) => ~drafts[lastCall.id].TestRunSuccess

\* a true flag was reset by a Save that changed the compiled schema
C6_Witness ==
    /\ lastCall.op = "Save" /\ ~lastCall.err
    /\ lastCall.existedDraft # NoDraft
    /\ lastCall.existedDraft.TestRunSuccess
    /\ ~SavedSchema.err /\ ~ExistedSchema.err
    /\ ~IsEqual(ExistedSchema.sc, SavedSchema.sc)
    /\ ~drafts[lastCall.id].TestRunSuccess

(***************************************************************************)
(* Claims about Publish                                                    *)
(***************************************************************************)
TupleLess(a, b) ==
    \E k \in 1..3 : a[k] < b[k] /\ \A j \in 1..(k - 1) : a[j] = b[j]

StrictlyGreater(latest, version) ==
    /\ ~parseVersion(latest).err
    /\ ~parseVersion(version).err
    /\ TupleLess(parseVersion(latest).val, parseVersion(version).val)

PublishedBefore == lastCall.op = "Publish" /\ lastCall.latest # NoVersion

PublishRejected ==
    lastCall.err /\ versions[lastCall.id] = lastCall.versionsBefore

PublishAccepted ==
    /\ ~lastCall.err
    /\ Len(versions[lastCall.id]) = Len(lastCall.versionsBefore) + 1
    /\ versions[lastCall.id][Len(versions[lastCall.id])].Version = lastCall.policy.Version

PublishedVersionsIncrease ==
    \A id \in PublishWorkflowIDs : \A i, j \in 1..Len(versions[id]) :
        i < j => /\ versions[id][i].Version # versions[id][j].Version
                 /\ StrictlyGreater(versions[id][i].Version, versions[id][j].Version)

SelectedDraftPublishable ==
    /\ ~DraftV2([w \in PublishWorkflowIDs |-> lastCall.draft], lastCall.id, lastCall.policy.CommitID).err
    /\ (lastCall.policy.Force \/ lastCall.draft.TestRunSuccess)

ReferencesOfNode(n) ==
    IF n.Type = NodeTypeSubWorkflow THEN {n.WorkflowID}
    ELSE IF n.Type = NodeTypeLLM THEN {n.WorkflowList[k].WorkflowID : k \in 1..Len(n.WorkflowList)}
    ELSE {}

IsAppWorkflow(s) == ~ParseInt(s).err /\ ParseInt(s).val \in DOMAIN app

\* the app workflows the canvas of w refers to, at any block depth
AppReferences(w) ==
    LET nodes == FlattenNodes(UnmarshalString(app[w].Canvas).val.Nodes)
    IN {ParseInt(s).val : s \in {r \in UNION {ReferencesOfNode(nodes[k]) : k \in 1..Len(nodes)} :
                                    IsAppWorkflow(r)}}

RECURSIVE ReachFrom(_, _)
ReachFrom(S, n) ==
    IF n = 0 THEN S ELSE ReachFrom(S \cup UNION {AppReferences(w) : w \in S}, n - 1)

\* the root and every app workflow reachable from it
Reachable(root) == ReachFrom({root}, Cardinality(DOMAIN app))

CopiesOf(w) == {k \in DOMAIN repoCopies : repoCopies[k].Src = w}

VersionsOf(newID) == {k \in DOMAIN repoVersions : repoVersions[k].ID = newID}

CopySucceeded ==
    /\ pc = "done"
    /\ op.kind = "copy"
    /\ copyResult.returned
    /\ ~copyResult.err
    /\ copyResult.ValidateIssues = <<>>

\* C8: CopyWorkflowFromAppToLibrary never copies or publishes a workflow twice,
\* and when it returns its result, the root and every app workflow reachable from
\* it has exactly one copy with exactly one version, workflows not reachable have
\* none, and the returned ID map has exactly one entry per reachable workflow,
\* naming that copy
C8_OneCopyPerReachableWorkflow ==
    op.kind = "copy" =>
        /\ \A w \in DOMAIN app : Cardinality(CopiesOf(w)) <= 1
        /\ \A k \in DOMAIN repoCopies : Cardinality(VersionsOf(repoCopies[k].ID)) <= 1
        /\ CopySucceeded =>
              /\ \A w \in DOMAIN app :
                    Cardinality(CopiesOf(w)) = IF w \in Reachable(op.root) THEN 1 ELSE 0
              /\ \A k \in DOMAIN repoCopies :
                    /\ Cardinality(VersionsOf(repoCopies[k].ID)) = 1
                    /\ repoCopies[k].TargetAppID = LibraryAppID
              /\ Len(repoVersions) = Len(repoCopies)
              /\ DOMAIN copyResult.WorkflowIDVersionMap = Reachable(op.root)
              /\ \A w \in Reachable(op.root) : \A k \in CopiesOf(w) :
                    copyResult.WorkflowIDVersionMap[w] =
                        [ID |-> repoCopies[k].ID, Version |-> workflowPublishVersion]
              /\ Len(copyResult.CopiedWorkflows) = Cardinality(Reachable(op.root))

\* the diamond is copied from its root: workflow 4 is reached through 2 and through 3
C8_Witness ==
    /\ CopySucceeded
    /\ app = AppDiamond
    /\ op.root = 1
    /\ Reachable(op.root) = {1, 2, 3, 4}
    /\ Len(repoCopies) = 4

DuplicateSucceeded ==
    /\ pc = "done"
    /\ op.kind = "dup"
    /\ copyResult.returned
    /\ ~copyResult.err

\* C9: DuplicateWorkflowsByAppID never copies a draft twice, in whatever order the
\* drafts and the referenced workflows are iterated, and when it returns its list
\* every draft of the app has exactly one copy, in the target app, and the list
\* holds exactly the IDs of these copies, one per draft
C9_EachDraftCopiedOnce ==
    op.kind = "dup" =>
        /\ \A w \in DOMAIN app : Cardinality(CopiesOf(w)) <= 1
        /\ DuplicateSucceeded =>
              /\ \A w \in DOMAIN app : Cardinality(CopiesOf(w)) = 1
              /\ \A k \in DOMAIN repoCopies : repoCopies[k].TargetAppID = TargetAppID
              /\ Len(copyResult.CopiedWorkflows) = Cardinality(DOMAIN app)
              /\ copyResult.CopiedWorkflows = [k \in DOMAIN repoCopies |-> repoCopies[k].ID]

\* the diamond is duplicated, workflow 3 is iterated first and workflow 4 is
\* copied as a workflow 3 refers to, and later met again under 2
C9_Witness ==
    /\ DuplicateSucceeded
    /\ app = AppDiamond
    /\ Len(repoCopies) = 4
    /\ repoCopies[1].Src = 4
    /\ repoCopies[2].Src = 3

RECURSIVE ToolsRewritten(_, _)
ToolsRewritten(old, new) ==
    /\ Len(old) = Len(new)
    /\ \A k \in 1..Len(old) :
          IsAppWorkflow(old[k].WorkflowID) =>
              /\ HasKey(memo, ParseInt(old[k].WorkflowID).val)
              /\ new[k].WorkflowID = FormatInt(memo[ParseInt(old[k].WorkflowID).val].ID)
              /\ new[k].WorkflowVersion = memo[ParseInt(old[k].WorkflowID).val].Version

\* position by position, the nodes written against the nodes of the source draft
RECURSIVE NodesRewritten(_, _)
NodesRewritten(old, new) ==
    /\ Len(old) = Len(new)
    /\ \A k \in 1..Len(old) :
          /\ new[k].ID = old[k].ID
          /\ new[k].Type = old[k].Type
          /\ (old[k].Type = NodeTypeSubWorkflow /\ IsAppWorkflow(old[k].WorkflowID)) =>
                /\ HasKey(memo, ParseInt(old[k].WorkflowID).val)
                /\ new[k].WorkflowID = FormatInt(memo[ParseInt(old[k].WorkflowID).val].ID)
                /\ new[k].WorkflowVersion = memo[ParseInt(old[k].WorkflowID).val].Version
          /\ old[k].Type = NodeTypeLLM => ToolsRewritten(old[k].WorkflowList, new[k].WorkflowList)
          /\ NodesRewritten(old[k].Blocks, new[k].Blocks)

\* C10: in every canvas written by a copy to the library or by a duplication, and
\* in every version published from it, each sub-workflow node and each LLM
\* workflow tool, at any block depth, that referred to a workflow of the source
\* app refers to the new ID and version the memo table holds for that workflow
C10_WrittenCanvasesPointAtCopies ==
    /\ \A k \in DOMAIN repoCopies :
          /\ ~UnmarshalString(repoCopies[k].Canvas).err
          /\ NodesRewritten(UnmarshalString(app[repoCopies[k].Src].Canvas).val.Nodes,
                            UnmarshalString(repoCopies[k].Canvas).val.Nodes)
    /\ \A v \in DOMAIN repoVersions : \E k \in DOMAIN repoCopies :
          /\ repoCopies[k].ID = repoVersions[v].ID
          /\ repoCopies[k].Canvas = repoVersions[v].Canvas

\* the root of the nested app is written: its references sit one and two blocks deep
C10_Witness ==
    /\ app = AppNested
    /\ \E k \in DOMAIN repoCopies :
          /\ repoCopies[k].Src = 1
          /\ UnmarshalString(repoCopies[k].Canvas).val.Nodes[1].Blocks[2].Blocks[1].WorkflowList[1]
                 = WorkflowTool(FormatInt(memo[3].ID), memo[3].Version)
          /\ UnmarshalString(repoCopies[k].Canvas).val.Nodes[1].Blocks[1].WorkflowID
                 = FormatInt(memo[2].ID)

\* position by position, the references that are not to a draft of the source
\* app are the same in the nodes written as in the nodes of the source draft
RECURSIVE NodesKept(_, _)
NodesKept(old, new) ==
    /\ Len(old) = Len(new)
    /\ \A k \in 1..Len(old) :
          /\ (old[k].Type = NodeTypeSubWorkflow /\ ~IsAppWorkflow(old[k].WorkflowID)) =>
                /\ new[k].WorkflowID = old[k].WorkflowID
                /\ new[k].WorkflowVersion = old[k].WorkflowVersion
          /\ old[k].Type = NodeTypeLLM =>
                /\ Len(new[k].WorkflowList) = Len(old[k].WorkflowList)
                /\ \A j \in 1..Len(old[k].WorkflowList) :
                      ~IsAppWorkflow(old[k].WorkflowList[j].WorkflowID) =>
                          new[k].WorkflowList[j] = old[k].WorkflowList[j]
          /\ NodesKept(old[k].Blocks, new[k].Blocks)

\* C37: a reference to a workflow that is not a draft of the source app is not
\* followed, copied or rewritten by CopyWorkflowFromAppToLibrary or
\* DuplicateWorkflowsByAppID: only drafts of the app are copied and entered in the
\* memo table, and every canvas written holds the reference with the workflow ID
\* and version of the source draft
C37_OutsideReferencesKept ==
    /\ DOMAIN memo \subseteq DOMAIN app
    /\ \A k \in DOMAIN repoCopies :
          /\ repoCopies[k].Src \in DOMAIN app
          /\ NodesKept(UnmarshalString(app[repoCopies[k].Src].Canvas).val.Nodes,
                       UnmarshalString(repoCopies[k].Canvas).val.Nodes)
    /\ \A v \in DOMAIN repoVersions : \E k \in DOMAIN repoCopies :
          /\ repoCopies[k].ID = repoVersions[v].ID
          /\ repoCopies[k].Canvas = repoVersions[v].Canvas

\* the root of the nested app is written: the tool and the node that call the
\* library workflow 9 at v0.0.3 are as in the draft, next to a rewritten tool
C37_Witness ==
    /\ app = AppNested
    /\ pc = "done"
    /\ 9 \notin DOMAIN memo
    /\ \E k \in DOMAIN repoCopies :
          /\ repoCopies[k].Src = 1
          /\ UnmarshalString(repoCopies[k].Canvas).val.Nodes[1].Blocks[2].Blocks[1].WorkflowList[2]
                 = WorkflowTool("9", "v0.0.3")
          /\ UnmarshalString(repoCopies[k].Canvas).val.Nodes[1].Blocks[2].Blocks[1].WorkflowList[1]
                 = WorkflowTool(FormatInt(memo[3].ID), memo[3].Version)
          /\ UnmarshalString(repoCopies[k].Canvas).val.Nodes[2].WorkflowID = "9"
          /\ UnmarshalString(repoCopies[k].Canvas).val.Nodes[2].WorkflowVersion = "v0.0.3"

(***************************************************************************)
(* Claims about suspension and resume                                      *)
(***************************************************************************)
\* the last Invoke had no input and found a checkpoint
IsResume == lastInvoke.in = NoInput /\ lastInvoke.found # NoCheckpoint

\* the last Invoke had an input and nothing was known of the answer
IsFirstInvoke == lastInvoke.in # NoInput /\ ~lastInvoke.known

\* C1: a run of Entry -> QuestionAnswer (answer directly) -> Exit that was suspended
\* and resumed with the answer as ResumeData of the QuestionAnswer node returns no
\* error and the output {answer: a}; and in every workflow the runs that were
\* suspended and resumed return the same output as the runs that knew the answer
\* from the start and were never suspended
C1_ResumeTransparency ==
    /\ (run.status = "finished" /\ run.wasSuspended) =>
          /\ invokeResult.err = NoError
          /\ QAKey \in DOMAIN lastInvoke.stateModifier
          /\ fixture.ws = DirectSchema => invokeResult.out = ("answer" :> fixture.answer)
    /\ \A r1, r2 \in finished : r1.out = r2.out

\* the direct-answer workflow has finished once without suspension and once after
\* a suspension and a resume that set the answer of the QuestionAnswer node only
C1_Witness ==
    /\ fixture.ws = DirectSchema
    /\ run.status = "finished"
    /\ run.wasSuspended
    /\ lastInvoke.stateModifier = QAKey :> fixture.answer
    /\ invokeResult.out = ("answer" :> fixture.answer)
    /\ \E r1, r2 \in finished : r1.suspended /\ ~r2.suspended

\* C2: a first Invoke never returns an output: when it returns, it returns an
\* error from which ExtractInterruptInfo extracts the interrupt info, and the State
\* of that info holds under IntermediateResult[qaKey] the question rendered from
\* the input and, in the choice mode, the offered choices in their order
C2_FirstInvokeInterrupts ==
    IsFirstInvoke =>
        /\ run.status \in {"running", "interrupted"}
        /\ run.status = "interrupted" =>
              LET extracted == ExtractInterruptInfo(invokeResult.err)
                  pending == extracted.info.State.IntermediateResult
              IN /\ invokeResult.out = NoOutput
                 /\ extracted.existed
                 /\ extracted.info.node = QAKey
                 /\ QAKey \in DOMAIN pending
                 /\ Len(pending[QAKey].questions) = 1
                 /\ pending[QAKey].questions[1].question = fixture.in.query
                 /\ pending[QAKey].questions[1].choices =
                        IF fixture.ws = FixedChoicesSchema
                        THEN <<fixture.in.choice1, fixture.in.choice2>>
                        ELSE <<>>

\* the first Invoke of the fixed-choices workflow has returned its interrupt
C2_Witness ==
    /\ IsFirstInvoke
    /\ run.status = "interrupted"
    /\ fixture.ws = FixedChoicesSchema
    /\ fixture.in.choice1 = "make workflow"
    /\ invokeResult.err.kind = "interrupt"
    /\ invokeResult.err.info.State.IntermediateResult[QAKey].questions[1].choices
           = <<"make workflow", "make agent">>

\* C3: in a run continued from a checkpoint, every node that had completed before
\* the suspension has been executed exactly once and its IntermediateResult entry
\* is the one the checkpoint held; the Entry node is never executed twice
C3_CompletedNodesNotReExecuted ==
    /\ \A c \in CheckPointIDs : execCount[c][EntryNodeKey] <= 1
    /\ (IsResume /\ run.status \in {"running", "interrupted", "finished"}) =>
          \A k \in DOMAIN lastInvoke.found.State.IntermediateResult \ {lastInvoke.found.suspended} :
              /\ execCount[run.checkPointID][k] = 1
              /\ k \in DOMAIN run.State.IntermediateResult
              /\ run.State.IntermediateResult[k] = lastInvoke.found.State.IntermediateResult[k]

\* a resumed run has finished: Entry ran once, the QuestionAnswer node twice
C3_Witness ==
    /\ IsResume
    /\ run.status = "finished"
    /\ execCount[run.checkPointID][EntryNodeKey] = 1
    /\ execCount[run.checkPointID][QAKey] = 2
    /\ execCount[run.checkPointID][ExitNodeKey] = 1

\* the last Invoke resumed a run and set no ResumeData for the suspended node
ResumedWithoutAnswer ==
    IsResume /\ lastInvoke.found.suspended \notin DOMAIN lastInvoke.stateModifier

C11_ReferencedWorkflowsCopiedFirst ==
    \A k \in DOMAIN repoCopies :
        \A w \in AppReferences(repoCopies[k].Src) :
            /\ \E j \in 1..(k - 1) : repoCopies[j].Src = w
            /\ HasKey(memo, w)

\* the diamond is copied: workflow 4 first, the root last
C11_Witness ==
    /\ app = AppDiamond
    /\ Len(repoCopies) = 4
    /\ repoCopies[1].Src = 4
    /\ repoCopies[4].Src = 1
    /\ AppReferences(1) = {2, 3}

(***************************************************************************)
(* Claims about SyncRelatedWorkflowResources                               *)
(***************************************************************************)
\* C12: the tasks share no mutable state: a task writes the draft of its workflow
\* only if its own rewrite of the canvas succeeded, and an error a task returns
\* is the error of its own rewrite
C12_TasksShareNoState ==
    \A wid \in DOMAIN tasks :
        /\ wid \in DOMAIN syncWritten => ~tasks[wid].ownErr
        /\ tasks[wid].ret # NilError => tasks[wid].ret = ErrorOf(wid)

\* the rewrite of workflow 2 failed, its half rewritten canvas was written as its
\* draft all the same, and SyncRelatedWorkflowResources returned no error
C12_Witness ==
    /\ syncPc = "done"
    /\ syncResult = NilError
    /\ tasks[2].ownErr
    /\ 2 \in DOMAIN syncWritten
    /\ syncWritten[2].Canvas # syncInput.draftVersions[2].Canvas

\* C13: the commit IDs are reserved in one batch before a task starts, the tasks
\* use different ones of them, the index never runs past the end of the batch, and
\* as many are reserved as tasks are started
C13_OneReservedCommitIDPerTask ==
    /\ syncPc # "panic"
    /\ \A wid \in DOMAIN tasks : \E k \in DOMAIN commitIDs : commitIDs[k] = tasks[wid].commitID
    /\ \A w1, w2 \in DOMAIN tasks : w1 # w2 => tasks[w1].commitID # tasks[w2].commitID
    /\ syncPc \in {"wait", "done"} => Len(commitIDs) = Cardinality(DOMAIN tasks)

\* relatedWorkflows holds a workflow that is no draft of the app, and the range
\* loop has indexed the batch past its end
C13_Witness ==
    /\ syncPc = "panic"
    /\ idx = Len(commitIDs)
    /\ 9 \in DOMAIN syncInput.relatedWorkflows
    /\ Len(commitIDs) < Cardinality(DOMAIN syncInput.draftVersions \ DOMAIN syncInput.relatedWorkflows)

(***************************************************************************)
(* Claims about the validation walk of WorkflowSchemaCheck                 *)
(***************************************************************************)
RootKey == VisitedKey(checkInput.wf.ID, GetVersion(checkInput.wf))

CanvasOfKey(k) ==
    IF k = RootKey THEN UnmarshalString(checkInput.wf.Canvas).val
    ELSE Nodes(GetEntity(checkInput.graph, k[1], k[2]).val.Canvas.json.Nodes)

\* the (workflowID, version) pairs the nodes of a canvas refer to, at any depth of blocks
KeysCalledBy(canvas) ==
    LET ns == SeqRange(FlattenNodes(canvas.Nodes))
        subs == {[WorkflowID |-> n.WorkflowID, WorkflowVersion |-> n.WorkflowVersion] :
                    n \in {m \in ns : m.Type = NodeTypeSubWorkflow}}
        tools == UNION {SeqRange(n.WorkflowList) : n \in {m \in ns : m.Type = NodeTypeLLM}}
    IN  {VisitedKey(ParseInt(r.WorkflowID).val, r.WorkflowVersion) :
            r \in {q \in subs \cup tools : q.WorkflowID # "" /\ ~ParseInt(q.WorkflowID).err}}

RECURSIVE KeysWithin(_, _)
KeysWithin(S, n) ==
    IF n = 0 THEN S
    ELSE KeysWithin(S \cup {k \in UNION {KeysCalledBy(CanvasOfKey(j)) : j \in S} :
                                k \in DOMAIN checkInput.graph}, n - 1)

\* the pairs whose canvas exists and is reachable from the root
ReachableKeys == KeysWithin({RootKey}, Cardinality(DOMAIN checkInput.graph) + 1)

WalkReturned == checkPc \in {"check", "done"} /\ checkResults # <<>>

WalkPassed == WalkReturned /\ checkResults[Len(checkResults)].IsPass

TraversalsOf(k) == IF k \in DOMAIN traversals THEN traversals[k] ELSE 0

\* C14: validateNodesRecursively returns for every reference graph, graphs with
\* shared sub-workflows and with cycles included
C14_WalkTerminates == (checkPc = "walk") ~> (checkPc = "check")

\* the walk over workflows 2 and 3, which call one another and the root, has
\* returned with the three pairs visited
C14_Witness ==
    /\ checkInput.graph = GraphCycle
    /\ WalkPassed
    /\ visited = {<<1, "">>, <<2, "">>, <<3, "">>}

\* C15 as stated: when the walk of one check has returned, the canvas of every
\* reachable pair was fetched and traversed exactly once
C15_AsStated ==
    WalkReturned => \A k \in ReachableKeys : TraversalsOf(k) = 1

\* C15: during one check no canvas is traversed twice, the root is traversed once,
\* only reachable canvases are traversed, and when the walk returns no error every
\* reachable canvas was traversed exactly once
C15_EachCanvasTraversedOnce ==
    /\ \A k \in DOMAIN traversals : traversals[k] = 1 /\ k \in ReachableKeys
    /\ checkPc = "walk" \/ WalkReturned => TraversalsOf(RootKey) = 1
    /\ WalkPassed => \A k \in ReachableKeys : TraversalsOf(k) = 1

\* the walk over the diamond has returned: workflow 4, reached through 2 and
\* through 3, was traversed once
C15_Witness ==
    /\ checkInput.graph = GraphDiamond
    /\ WalkPassed
    /\ ReachableKeys = {<<1, "">>, <<2, "">>, <<3, "">>, <<4, "">>}
    /\ traversals[<<4, "">>] = 1

ConversationNodeTypes ==
    {NodeTypeCreateConversation, NodeTypeConversationDelete,
     NodeTypeConversationUpdate, NodeTypeConversationList}

\* the nodes of the root canvas and of every existing canvas it reaches, at any
\* depth of blocks
ClosureNodes == UNION {SeqRange(FlattenNodes(CanvasOfKey(k).Nodes)) : k \in ReachableKeys}

ConversationInClosure == \E n \in ClosureNodes : n.Type \in ConversationNodeTypes

\* a reference of the closure with a workflow ID that is no number, or to a
\* record the store fails to read
BrokenReferenceInClosure ==
    \/ \E k \in ReachableKeys \ {RootKey} :
          GetEntity(checkInput.graph, k[1], k[2]).err = ErrUnavailable
    \/ \E n \in ClosureNodes :
          \/ n.Type = NodeTypeSubWorkflow /\ n.WorkflowID # "" /\ ParseInt(n.WorkflowID).err
          \/ n.Type = NodeTypeLLM /\ \E j \in DOMAIN n.WorkflowList :
                n.WorkflowList[j].WorkflowID # "" /\ ParseInt(n.WorkflowList[j].WorkflowID).err

BotAgentResults == {r \in SeqRange(checkResults) : r.Type = CheckType_BotAgent}

\* C38 as stated: the BotAgent check fails exactly when the closure holds a
\* conversation node
C38_AsStated ==
    \A r \in BotAgentResults : ~r.IsPass <=> ConversationInClosure

\* C38: the BotAgent check fails whenever the root canvas, its blocks at any depth
\* or the canvas of an existing workflow it reaches through sub-workflow nodes and
\* workflow tools holds a conversation node; it fails without one only over a
\* reference it cannot follow (a workflow ID that is no number, a record the
\* store fails to read), so that with no such reference it fails exactly when
\* the closure holds a conversation node
C38_FailsOnConversationOrBrokenReference ==
    \A r \in BotAgentResults :
        /\ ConversationInClosure => ~r.IsPass
        /\ ~r.IsPass => ConversationInClosure \/ BrokenReferenceInClosure
        /\ r.Reason = checkBotAgentNode(Node("0", NodeTypeCreateConversation))
              => ConversationInClosure
        /\ ~BrokenReferenceInClosure => (~r.IsPass <=> ConversationInClosure)

\* the check has failed over the node that deletes a conversation, in a block of
\* workflow 3, which a version of workflow 2, a tool of the root, calls
C38_Witness ==
    /\ checkPc = "done"
    /\ checkInput.graph = GraphToolConversation
    /\ checkInput.checks = <<CheckType_BotAgent>>
    /\ ConversationInClosure
    /\ ~BrokenReferenceInClosure
    /\ checkResults = <<CheckResult(FALSE, "conversation-related nodes are not supported in chatflow",
                                    CheckType_BotAgent)>>

(***************************************************************************)
(* Claims about ValidateTree                                               *)
(***************************************************************************)
TreeReturned == treePc = "done" /\ ~treeErr

TreeCanvasOf(k) == treeInput.graph[k]

RECURSIVE TreeKeysWithin(_, _)
TreeKeysWithin(S, n) ==
    IF n = 0 THEN S
    ELSE TreeKeysWithin(S \cup {k \in UNION {KeysCalledBy(TreeCanvasOf(j)) : j \in S} :
                                    k \in DOMAIN treeInput.graph}, n - 1)

\* the workflows reachable from the root canvas through sub-workflow nodes and
\* workflow tools
TreeClosure == TreeKeysWithin({<<treeInput.id, "">>}, Cardinality(DOMAIN treeInput.graph))

ReportedIDs == {wfValidateInfos[k].WorkflowID : k \in DOMAIN wfValidateInfos}

\* C16: the result of ValidateTree holds an entry for exactly the workflows of the
\* closure of the root canvas that have issues, sub-workflows of sub-workflows and
\* workflow tools included
C16_ReportsWholeClosure ==
    TreeReturned =>
        ReportedIDs = {FormatInt(k[1]) : k \in {j \in TreeClosure : HasIssue(TreeCanvasOf(j).Nodes)}}

\* workflow 4, called by sub-workflow 2 of the root, has an issue and ValidateTree
\* has returned without an entry for it
C16_Witness ==
    /\ TreeReturned
    /\ treeInput.graph = TreeDeep({4})
    /\ <<4, "">> \in KeysCalledBy(TreeCanvasOf(<<2, "">>))
    /\ <<2, "">> \in KeysCalledBy(TreeCanvasOf(<<1, "">>))
    /\ HasIssue(TreeCanvasOf(<<4, "">>).Nodes)
    /\ "4" \notin ReportedIDs

(***************************************************************************)
(* Claims about canvasToRefs                                               *)
(***************************************************************************)
WalkedNodes == SeqRange(FlattenNodes(UnmarshalString(refsInput.canvasStr).val.Nodes))

\* the workflows targeted by the sub-workflow nodes of the canvas, at any depth
SubWorkflowTargets ==
    {ParseInt(n.WorkflowID).val : n \in {m \in WalkedNodes : m.Type = NodeTypeSubWorkflow}}

\* the workflows listed as a workflow tool of an LLM node of the canvas, at any depth
ToolTargets ==
    {ParseInt(w.WorkflowID).val :
        w \in UNION {SeqRange(n.WorkflowList) : n \in {m \in WalkedNodes : m.Type = NodeTypeLLM}}}

RefsReturned == refsPc = "done" /\ ~wfRefs.err

\* C17: canvasToRefs returns one SubWorkflow key per distinct workflow targeted by
\* a sub-workflow node and one Tool key per distinct workflow tool of an LLM node,
\* at any depth of blocks, and every key's ReferringID is the walked workflow
C17_OneKeyPerDistinctReference ==
    RefsReturned =>
        /\ wfRefs.val =
               {[ReferredID |-> t, ReferringID |-> refsInput.referringID,
                 ReferType |-> "SubWorkflow", ReferringBizType |-> "Workflow"] : t \in SubWorkflowTargets}
               \cup {[ReferredID |-> t, ReferringID |-> refsInput.referringID,
                       ReferType |-> "Tool", ReferringBizType |-> "Workflow"] : t \in ToolTargets}
        /\ Cardinality(wfRefs.val) = Cardinality(SubWorkflowTargets) + Cardinality(ToolTargets)

\* workflow 2 is the target of a top-level sub-workflow node and of one inside a
\* loop, workflow 4 of one two loops deep: two SubWorkflow keys and one Tool key
C17_Witness ==
    /\ RefsReturned
    /\ refsInput.referringID = 7
    /\ Len(UnmarshalString(refsInput.canvasStr).val.Nodes) = 2
    /\ \E n \in WalkedNodes : n.Type = NodeTypeSubWorkflow /\ n.ID = "11"
    /\ \E n \in WalkedNodes : n.Type = NodeTypeSubWorkflow /\ n.ID = "22"
    /\ SubWorkflowTargets = {2, 4}
    /\ ToolTargets = {3}
    /\ Cardinality(wfRefs.val) = 3

(***************************************************************************)
(* Claims about GetWorkflowDependenceResource                              *)
(***************************************************************************)
Joined(a, b) ==
    DependenceResource(a.PluginIDs \o b.PluginIDs, a.KnowledgeIDs \o b.KnowledgeIDs,
                       a.DatabaseIDs \o b.DatabaseIDs)

\* what one node uses itself: an app plugin or draft plugin tools, knowledge
\* bases, databases
UsedByNode(node) ==
    DependenceResource(
        (IF node.Type = NodeTypePlugin /\ node.pluginVersion = "0"
         THEN AppendParsed(<<>>, <<node.pluginID>>).val ELSE <<>>)
        \o (IF node.Type = NodeTypeLLM
            THEN AppendParsed(<<>>, [k \in DOMAIN DraftOnes(node.PluginList) |->
                                        DraftOnes(node.PluginList)[k].PluginID]).val
            ELSE <<>>),
        (IF node.Type = NodeTypeKnowledge THEN AppendParsed(<<>>, node.DatasetParam).val ELSE <<>>)
        \o (IF node.Type = NodeTypeLLM THEN AppendParsed(<<>>, node.KnowledgeList).val ELSE <<>>),
        IF node.Type = NodeTypeDatabase THEN AppendParsed(<<>>, node.DatabaseInfoList).val ELSE <<>>)

\* the drafts one node calls: as a sub-workflow without version, or as draft tools
DraftsCalledBy(node) ==
    IF node.Type = NodeTypeSubWorkflow /\ node.WorkflowVersion = ""
    THEN <<node.WorkflowID>>
    ELSE IF node.Type = NodeTypeLLM
    THEN [k \in DOMAIN DraftOnes(node.WorkflowList) |-> DraftOnes(node.WorkflowList)[k].WorkflowID]
    ELSE <<>>

RECURSIVE UsedInClosure(_, _)
RECURSIVE UsedByDrafts(_, _)

UsedByDrafts(ids, graph) ==
    IF ids = <<>> THEN DependenceResource(<<>>, <<>>, <<>>)
    ELSE Joined(IF <<ParseInt(Head(ids)).val, "">> \in DOMAIN graph
                THEN UsedInClosure(FlattenNodes(graph[<<ParseInt(Head(ids)).val, "">>].Nodes), graph)
                ELSE DependenceResource(<<>>, <<>>, <<>>),
                UsedByDrafts(Tail(ids), graph))

\* the uses of the given nodes and of the drafts they call, transitively
UsedInClosure(flat, graph) ==
    IF flat = <<>> THEN DependenceResource(<<>>, <<>>, <<>>)
    ELSE Joined(Joined(UsedByNode(Head(flat)), UsedByDrafts(DraftsCalledBy(Head(flat)), graph)),
                UsedInClosure(Tail(flat), graph))

Count(list, x) == Cardinality({k \in DOMAIN list : list[k] = x})

SameUses(a, b) == \A x \in 0..MaxID : Count(a, x) = Count(b, x)

DepReturned == depPc = "done" /\ ~depErr

DepExpected ==
    UsedInClosure(FlattenNodes(depInput.graph[<<depInput.workflowID, "">>].Nodes), depInput.graph)

\* C18: GetWorkflowDependenceResource returns every plugin, knowledge and database
\* ID used by a node of the closure of the draft, nodes inside the blocks of a
\* container included, once per use
C18_EveryUseInClosureListed ==
    DepReturned =>
        /\ SameUses(ds.PluginIDs, DepExpected.PluginIDs)
        /\ SameUses(ds.KnowledgeIDs, DepExpected.KnowledgeIDs)
        /\ SameUses(ds.DatabaseIDs, DepExpected.DatabaseIDs)

\* the draft holds nothing but a loop with a plugin node and a database node in
\* its blocks, and an empty DependenceResource was returned
C18_Witness ==
    /\ DepReturned
    /\ Len(depInput.graph[<<1, "">>].Nodes) = 1
    /\ depInput.graph[<<1, "">>].Nodes[1].Type = NodeTypeLoop
    /\ DepExpected = DependenceResource(<<5>>, <<>>, <<7>>)
    /\ ds = DependenceResource(<<>>, <<>>, <<>>)

\* C18, the part that holds: outside the blocks of containers every use is listed: sub-workflow 2 and its
\* sub-workflow 3 contribute plugin 5 and database 7
C18_ListedOutsideBlocks ==
    DepReturned /\ (\A k \in DOMAIN depInput.graph[<<1, "">>].Nodes :
                        depInput.graph[<<1, "">>].Nodes[k].Blocks = <<>>) =>
        /\ SameUses(ds.PluginIDs, DepExpected.PluginIDs)
        /\ SameUses(ds.KnowledgeIDs, DepExpected.KnowledgeIDs)
        /\ SameUses(ds.DatabaseIDs, DepExpected.DatabaseIDs)

(***************************************************************************)
(* Claims about cyclic references between the drafts of an app             *)
(***************************************************************************)
\* C19: while the reference tree is built, a workflow that is an ancestor on the
\* current path is not descended into again, so the construction does not recurse
\* without end
C19_AncestorsNotDescendedAgain ==
    \A path \in tree : \A i, j \in DOMAIN path : i # j => path[i] # path[j]

\* workflows 1 and 2 call one another and the construction has descended
\* 1, 2, 1, 2, ... as deep as the model follows it
C19_Witness ==
    /\ app = AppMutual
    /\ pc = "build"
    /\ \E path \in tree :
           /\ Len(path) = MaxDepth
           /\ \A k \in DOMAIN path : path[k] = (IF k % 2 = 1 THEN path[1] ELSE 3 - path[1])

(***************************************************************************)
(* Claims about ReleaseApplicationWorkflows                                *)
(***************************************************************************)
\* the references of a stored version that the release rewrote: to a draft of
\* the app, at the version of the release
RewrittenReferences(id) ==
    {k \in KeysCalledBy(UnmarshalString(relVersions[<<id, ReleaseVersion>>]).val) :
        k[1] \in DOMAIN relInput.app /\ k[2] = ReleaseVersion}

CreatedByRelease == {workflowIDs[k] : k \in DOMAIN workflowIDs} \cap {k[1] : k \in DOMAIN relVersions}

Dangling(id) == {k \in RewrittenReferences(id) : k \notin DOMAIN relVersions}

ReleaseSucceeded == relPc = "done" /\ ~relResult.err /\ relResult.vIssues = {}

\* C20: at no point does a version the release created hold a rewritten reference
\* to a version that does not exist, also when only some of the workflows of the
\* app are published
C20_RewrittenReferencesExist ==
    \A id \in CreatedByRelease : Dangling(id) = {}

\* only workflow 1 of the app was published, the release has succeeded, and the
\* version of workflow 1 calls a version of workflow 2 that does not exist
C20_Witness ==
    /\ ReleaseSucceeded
    /\ relInput.app = AppTwoNodes
    /\ relInput.WorkflowIDs = {1}
    /\ CreatedByRelease = {1}
    /\ Dangling(1) = {<<2, ReleaseVersion>>}

\* C20, the part that holds: after a successful release of all the workflows of
\* the app, every rewritten reference points at a version that exists
C20_FullReleaseComplete ==
    ReleaseSucceeded /\ relInput.WorkflowIDs \in {{}, DOMAIN relInput.app} =>
        \A id \in CreatedByRelease : Dangling(id) = {}

\* the workflows to publish whose canvas has a node validation reports
ReleaseIssues ==
    {id \in DraftsOfApp(relInput.app, relInput.WorkflowIDs) :
        HasIssue(UnmarshalString(relInput.app[id].Canvas).val.Nodes)}

\* the release got past its check of the connectors
ReleaseValidated == relPc # "off" /\ Len(relInput.ConnectorIDs) > 0

\* the loop that creates the versions was not entered and nothing was created
NothingReleased ==
    /\ relPc \in {"call", "done"}
    /\ workflowsToPublish = EmptyMap
    /\ workflowIDs = <<>>
    /\ relVersions = relInput.versions

\* C36: when the validation of some workflow to be published reports an issue,
\* ReleaseApplicationWorkflows returns the issues of every such workflow, not
\* only of the first, and never reaches the steps that create the versions, the
\* chat flow role versions and the connector bindings; a version is created only
\* when no workflow to be published has an issue
C36_IssuesReturnedNothingReleased ==
    /\ [][ReleaseValidated /\ ReleaseIssues # {} =>
            ~ENABLED (\E othersOK \in BOOLEAN : ReleaseReturn(othersOK))]_vars
    /\ [](ReleaseValidated /\ ReleaseIssues # {} =>
            /\ NothingReleased
            /\ (relPc = "done" => relResult = Released(FALSE, ReleaseIssues)))
    /\ [](relVersions # relInput.versions => ReleaseIssues = {})

\* all four workflows of the app were to be published, three of them have an
\* issue: the three are returned and no version exists
C36_Witness ==
    /\ relPc = "done"
    /\ relInput.app = AppIssues
    /\ relInput.WorkflowIDs = {}
    /\ relResult = Released(FALSE, {1, 3, 4})
    /\ NothingReleased

(***************************************************************************)
(* Claims about the versions of a workflow                                 *)
(***************************************************************************)
\* every version stored before a step is stored, unchanged, after it
VersionsKept ==
    \A id \in WorkflowIDs : \A k \in 1..Len(versions[id]) :
        /\ Len(versions'[id]) >= k
        /\ versions'[id][k] = versions[id][k]

\* no workflow has two versions of one name
VersionsDistinct ==
    \A id \in WorkflowIDs : \A j, k \in 1..Len(versions[id]) :
        versions[id][j].Version = versions[id][k].Version => j = k

IsRelease == lastCall.op = "Release"

\* the release asked repo.CreateVersion for no version that existed, and where
\* every workflow of the app had the version it created nothing
ReleaseSkipsExisting ==
    IsRelease =>
        /\ \A id \in lastCall.attempted :
              ~VersionExisted(lastCall.versionsBefore, id, lastCall.version)
        /\ ((\A id \in lastCall.app :
                VersionExisted(lastCall.versionsBefore, id, lastCall.version))
              => (~lastCall.err /\ versions = lastCall.versionsBefore))

FixedChoicesResumed ==
    fixture.ws = FixedChoicesSchema /\ run.status = "finished" /\ run.wasSuspended

\* the choices offered by the fixed-choices workflow
FixedOffered == <<fixture.in.choice1, fixture.in.choice2>>

IsOffered(offered, text) == \E k \in 1..Len(offered) : offered[k] = text

\* C22: a run of the fixed-choices workflow resumed with a text that is none of
\* the offered choices returns option_id "other" and option_content the text as
\* it was given, and got to the Exit node over the default branch, that is
\* through the lambda node, which the branches of the choices do not pass
C22_UnmatchedTextIsOther ==
    (FixedChoicesResumed /\ ~IsOffered(FixedOffered, fixture.answer)) =>
        /\ invokeResult.err = NoError
        /\ invokeResult.out = ("option_id" :> "other") @@ ("option_content" :> fixture.answer)
        /\ execCount[run.checkPointID][LambdaKey] = 1
        /\ LambdaKey \in DOMAIN run.State.IntermediateResult
        /\ execCount[run.checkPointID][ExitNodeKey] = 1

\* the run offered "make agent" and "make workflow" and was resumed with
\* "I would make all kinds of stuff"
C22_Witness ==
    /\ FixedChoicesResumed
    /\ fixture.in.choice1 = "make agent" /\ fixture.in.choice2 = "make workflow"
    /\ fixture.answer = "I would make all kinds of stuff"
    /\ lastInvoke.stateModifier = QAKey :> fixture.answer
    /\ invokeResult.out = ("option_id" :> "other")
                              @@ ("option_content" :> "I would make all kinds of stuff")
    /\ execCount[run.checkPointID][LambdaKey] = 1

\* a suspended run of the dynamic-choices workflow has finished
DynamicChoicesResumed ==
    fixture.ws = DynamicChoicesSchema /\ run.status = "finished" /\ run.wasSuspended

\* the text the resuming Invoke set for the QuestionAnswer node
ResumeText == lastInvoke.stateModifier[QAKey]

\* C23: a run of the dynamic-choices workflow resumed with the text of the i-th
\* choice the Entry node passed on returns option_id the i-th letter (A, B, C)
\* and option_content that choice, and reached Exit without the default branch
C23_MatchedTextIsItsLetter ==
    DynamicChoicesResumed =>
        \A i \in 1..Len(fixture.in.choices) :
            fixture.in.choices[i] = ResumeText =>
                /\ invokeResult.err = NoError
                /\ invokeResult.out = ("option_id" :> OptionLetters[i])
                                          @@ ("option_content" :> fixture.in.choices[i])
                /\ execCount[run.checkPointID][LambdaKey] = 0

\* choices beijing and shanghai, resumed with "beijing": option_id is "A"
C23_Witness ==
    /\ DynamicChoicesResumed
    /\ fixture.in.choices = <<"beijing", "shanghai">>
    /\ ResumeText = "beijing"
    /\ invokeResult.out = ("option_id" :> "A") @@ ("option_content" :> "beijing")

(***************************************************************************)
(* Claims about the extraction of fields from the answers                  *)
(***************************************************************************)
\* the configuration of the QuestionAnswer node of the workflow
QAConfig == NodeOf(fixture.ws, QAKey).Configs

\* the answers a State holds for the QuestionAnswer node
AnswersIn(st) ==
    IF QAKey \in DOMAIN st.IntermediateResult THEN st.IntermediateResult[QAKey].answers
    ELSE <<>>

QuestionsIn(st) ==
    IF QAKey \in DOMAIN st.IntermediateResult THEN st.IntermediateResult[QAKey].questions
    ELSE <<>>

\* the resuming Invoke gave an answer and the node suspended once more
SuspendedAgain ==
    /\ IsResume /\ QAKey \in DOMAIN lastInvoke.stateModifier
    /\ run.status = "interrupted"

\* C24: with extraction and MaxAnswerCount = n, no State of a run and no
\* checkpoint ever holds more than n answers; a run that is suspended again after
\* an answer has asked one more question, has a round left and has its State saved
\* under the checkpoint ID it was resumed with; and a run that finishes returns
\* the extracted fields and, as USER_RESPONSE, the last answer
C24_ExtractionRoundsBounded ==
    QAConfig.ExtractFromAnswer =>
        /\ Len(AnswersIn(run.State)) <= QAConfig.MaxAnswerCount
        /\ \A c \in CheckPointIDs :
              store[c] # NoCheckpoint => Len(AnswersIn(store[c].State)) <= QAConfig.MaxAnswerCount
        /\ SuspendedAgain =>
              /\ run.checkPointID = lastInvoke.checkPointID
              /\ store[run.checkPointID] = [State |-> run.State, suspended |-> QAKey]
              /\ ExtractInterruptInfo(invokeResult.err).existed
              /\ AnswersIn(run.State) = Append(AnswersIn(lastInvoke.found.State), ResumeText)
              /\ Len(QuestionsIn(run.State)) = Len(AnswersIn(run.State)) + 1
              /\ Len(AnswersIn(run.State)) < QAConfig.MaxAnswerCount
        /\ run.status = "finished" =>
              /\ invokeResult.err = NoError
              /\ invokeResult.out = ("name" :> "eino") @@ ("age" :> 1)
                                        @@ (UserResponseKey :> ResumeText)

\* MaxAnswerCount 2: the first answer led to the question for the age, the second
\* to the fields
C24_Witness ==
    /\ QAConfig.ExtractFromAnswer /\ QAConfig.MaxAnswerCount = 2
    /\ run.status = "finished"
    /\ AnswersIn(run.State) = <<"my name is eino", "my age is 1 years old">>
    /\ Len(QuestionsIn(run.State)) = 2
    /\ execCount[run.checkPointID][QAKey] = 3
    /\ invokeResult.out = ("name" :> "eino") @@ ("age" :> 1)
                              @@ (UserResponseKey :> "my age is 1 years old")

(***************************************************************************)
(* Claims about the parameter lists Save extracts                          *)
(***************************************************************************)
\* the last call was a Save, alone or within Create, of a canvas that parses
SavedParsedCanvas ==
    lastCall.op \in {"Save", "Create"} /\ ~UnmarshalString(lastCall.schema).err

\* the canvas has no node of that type among its nodes
Lacks(c, type) == \A k \in 1..Len(c.Nodes) : c.Nodes[k].Type # type

\* C25: a Save of a canvas that parses fails only when the commit ID cannot be
\* generated (a Create also when the meta cannot be stored), whether or not the canvas has an Entry and an Exit node; it stores
\* the canvas, the empty list as input parameters when the canvas has no Entry
\* node, and the empty list as output parameters when it has no Exit node
C25_SaveToleratesMissingEntryExit ==
    SavedParsedCanvas =>
        LET c == UnmarshalString(lastCall.schema).val IN
        /\ lastCall.err <=> ~(lastCall.genOK /\ (lastCall.op = "Create" => lastCall.metaOK))
        /\ ~lastCall.err =>
              /\ drafts[lastCall.id].Canvas = lastCall.schema
              /\ Lacks(c, NodeTypeEntry) =>
                    drafts[lastCall.id].InputParamsStr = MarshalString(<<>>)
              /\ Lacks(c, NodeTypeExit) =>
                    drafts[lastCall.id].OutputParamsStr = MarshalString(<<>>)

\* a canvas with an Entry node and no Exit node was saved: the input parameters
\* are those of the Entry node, the output parameters are empty
C25_Witness ==
    /\ SavedParsedCanvas /\ ~lastCall.err
    /\ ~Lacks(UnmarshalString(lastCall.schema).val, NodeTypeEntry)
    /\ Lacks(UnmarshalString(lastCall.schema).val, NodeTypeExit)
    /\ drafts[lastCall.id].InputParamsStr = MarshalString(<<[Name |-> "query", Type |-> "string"]>>)
    /\ drafts[lastCall.id].OutputParamsStr = MarshalString(<<>>)

(***************************************************************************)
(* Claims about Create                                                     *)
(***************************************************************************)
\* C26 as stated: every workflow whose meta is stored has a draft
C26_NoMetaWithoutDraft ==
    \A id \in WorkflowIDs : metas[id].exists => drafts[id] # NoDraft

\* C26, the part that holds: a Create that returns no error has stored the meta
\* and the draft of its InitCanvasSchema; a Create that failed to store the meta
\* has stored no draft; and a meta is without draft only as long as no Create
\* or Save of the workflow has succeeded
C26_CreatedWithDraft ==
    /\ (lastCall.op = "Create" /\ ~lastCall.err) =>
          /\ metas[lastCall.id].exists
          /\ drafts[lastCall.id] # NoDraft
          /\ drafts[lastCall.id].Canvas = lastCall.schema
    /\ \A id \in WorkflowIDs : drafts[id] # NoDraft => metas[id].exists
    /\ (lastCall.op \in {"Create", "Save"} /\ ~lastCall.err) => C26_NoMetaWithoutDraft

\* a Create whose Save failed on GenID returned an error: the meta is stored,
\* the draft is not
C26_Witness ==
    /\ lastCall.op = "Create" /\ lastCall.err
    /\ lastCall.metaOK /\ ~lastCall.genOK
    /\ ~UnmarshalString(lastCall.schema).err
    /\ metas[lastCall.id].exists
    /\ drafts[lastCall.id] = NoDraft

(***************************************************************************)
(* Claims about the draft and its commit ID                                *)
(***************************************************************************)
\* the canvas and the commit ID of the draft of a workflow
DraftContent(dr, id) ==
    IF dr[id] = NoDraft THEN NoDraft ELSE [Canvas |-> dr[id].Canvas, CommitID |-> dr[id].CommitID]

\* the commit IDs of the drafts, as numbers
CommitOf(dr, id) == ParseInt(dr[id].CommitID).val

\* a step in which an ID is handed out is a Save (alone or within Create) that
\* succeeds: the draft of its workflow gets the canvas saved and a commit ID no
\* draft ever had, the other drafts stay; in every other step, a failed Save
\* included, every draft keeps its canvas and its commit ID
SaveStep ==
    IF idgen' # idgen
    THEN /\ lastCall'.op \in {"Save", "Create"} /\ ~lastCall'.err
         /\ drafts'[lastCall'.id] # NoDraft
         /\ drafts'[lastCall'.id].Canvas = lastCall'.schema
         /\ ~ParseInt(drafts'[lastCall'.id].CommitID).err
         /\ CommitOf(drafts', lastCall'.id) > idgen
         /\ \A id \in WorkflowIDs \ {lastCall'.id} : drafts'[id] = drafts[id]
    ELSE \A id \in WorkflowIDs : DraftContent(drafts', id) = DraftContent(drafts, id)

\* every commit ID of a draft has been handed out, and no two drafts share one
CommitIDsDistinct ==
    \A id \in WorkflowIDs : drafts[id] # NoDraft =>
        /\ CommitOf(drafts, id) \in 1..idgen
        /\ \A other \in WorkflowIDs \ {id} :
              drafts[other] # NoDraft => drafts[other].CommitID # drafts[id].CommitID

\* the last call was a Save or Create that returned an error
SaveFailed == lastCall.op \in {"Save", "Create"} /\ lastCall.err

\* C27: each successful Save replaces the draft of the workflow by the canvas
\* saved under a commit ID that no earlier Save assigned, so that the draft is
\* always that of the last successful Save; a Save that fails because the canvas
\* does not parse or no ID can be generated leaves the draft as it was
C27_DraftIsLastSuccessfulSave ==
    /\ [][SaveStep]_vars
    /\ [](CommitIDsDistinct /\ (SaveFailed => drafts[lastCall.id] = lastCall.existedDraft))

\* after two successful Saves a Save of a canvas that does not parse failed: the
\* draft is still that of the second Save
C27_Witness ==
    /\ lastCall.op = "Save" /\ lastCall.err
    /\ UnmarshalString(lastCall.schema).err
    /\ idgen = 3
    /\ drafts[lastCall.id] = lastCall.existedDraft
    /\ drafts[lastCall.id].CommitID = FormatInt(3)

(***************************************************************************)
(* Claims about the version strings Publish accepts                        *)
(***************************************************************************)
\* C28 as stated: every version stored parses into a version tuple
C28_AcceptedVersionsParse ==
    \A id \in WorkflowIDs : \A k \in 1..Len(versions[id]) :
        ~parseVersion(versions[id][k].Version).err

\* the last call was a Publish of a string that does not parse
PublishUnparsable == lastCall.op = "Publish" /\ parseVersion(lastCall.policy.Version).err

\* C28, the part that holds: on a workflow that has a published version, a
\* Publish of a string that does not parse returns an error and creates no
\* version, and so does every Publish once the latest published version is a
\* string that does not parse; only the first version of a workflow can be one
C28_UnparsableRejectedAfterFirst ==
    /\ (PublishUnparsable /\ PublishedBefore) =>
          (lastCall.err /\ versions[lastCall.id] = lastCall.versionsBefore)
    /\ (lastCall.op = "Publish" /\ PublishedBefore /\ parseVersion(lastCall.latest).err) =>
          (lastCall.err /\ versions[lastCall.id] = lastCall.versionsBefore)
    /\ \A id \in WorkflowIDs : \A k \in 2..Len(versions[id]) :
          ~parseVersion(versions[id][k].Version).err

\* the first Publish of a workflow was given "latest" and was accepted
C28_Witness ==
    /\ PublishUnparsable /\ ~lastCall.err
    /\ lastCall.latest = NoVersion
    /\ lastCall.policy.Version = "latest"
    /\ Len(versions[lastCall.id]) = 1
    /\ versions[lastCall.id][1].Version = "latest"
    /\ metas[lastCall.id].LatestPublishedVersion = "latest"

(***************************************************************************)
(* Claims about the results of WorkflowSchemaCheck                         *)
(***************************************************************************)
FetchFailed == "failed to get sub-workflow entity"

\* the reference graph holds a workflow the store fails to read
HasUnavailable == \E key \in DOMAIN checkInput.graph : checkInput.graph[key] = Unavailable

\* C29: a reference to a workflow that does not exist is skipped, the walk goes
\* on and the check can pass; any other error of the fetch fails the check it
\* occurs in. WorkflowSchemaCheck returns an error only when the canvas of the
\* workflow itself does not parse, before any check has run; otherwise it
\* returns one CheckResult per requested check type, in order, a failed check
\* being a result with IsPass false and its reason
C29_OneResultPerCheck ==
    /\ checkPc = "failed" =>
          (UnmarshalString(checkInput.wf.Canvas).err /\ checkResults = <<>>)
    /\ checkPc \in {"check", "walk", "done"} => ~UnmarshalString(checkInput.wf.Canvas).err
    /\ walkErr = FetchFailed => HasUnavailable
    /\ checkPc = "done" =>
          /\ Len(checkResults) = Len(checkInput.checks)
          /\ \A k \in 1..Len(checkResults) :
                /\ checkResults[k].Type = checkInput.checks[k]
                /\ checkResults[k].IsPass <=> checkResults[k].Reason = ""
          /\ checkInput.graph \in {GraphMissing, GraphToolMissing} =>
                /\ \A k \in 1..Len(checkResults) : checkResults[k].IsPass
                /\ VisitedKey(2, "") \in visited
                /\ \A version \in {"", "v0.0.1"} : VisitedKey(5, version) \notin visited
          /\ checkInput.graph \in {GraphUnavailable, GraphToolUnavailable} =>
                \A k \in 1..Len(checkResults) :
                    ~checkResults[k].IsPass /\ checkResults[k].Reason = FetchFailed

\* two checks of a workflow that calls a missing workflow and then one the store
\* fails to read: two results, both failed with the error of the fetch
C29_Witness ==
    /\ checkPc = "done"
    /\ checkInput.graph = GraphUnavailable
    /\ checkInput.checks = <<CheckType_Other, CheckType_BotAgent>>
    /\ checkResults = <<CheckResult(FALSE, FetchFailed, CheckType_Other),
                        CheckResult(FALSE, FetchFailed, CheckType_BotAgent)>>
    /\ VisitedKey(3, "") \notin visited

(***************************************************************************)
(* Claims about the draft equivalence check                                *)
(***************************************************************************)
\* two results of CanvasToWorkflowSchema are the same compiled schema
SameSchema(a, b) == (a.err /\ b.err) \/ (~a.err /\ ~b.err /\ IsEqual(a.sc, b.sc))

CompiledDraft(d) == CanvasToWorkflowSchema(UnmarshalString(d.Canvas).val)

\* two previous drafts with the same compiled schema and the same flag
SamePrevious(d, e) ==
    \/ d = NoDraft /\ e = NoDraft
    \/ /\ d # NoDraft /\ e # NoDraft
       /\ SameSchema(CompiledDraft(d), CompiledDraft(e))
       /\ d.TestRunSuccess = e.TestRunSuccess

\* drafts the repository can hold: any canvas that parses, either flag, any commit
PreviousDrafts ==
    {NoDraft} \cup
    { [Canvas |-> s, TestRunSuccess |-> f, Modified |-> TRUE,
       InputParamsStr |-> MarshalString(<<>>), OutputParamsStr |-> MarshalString(<<>>),
       CommitID |-> FormatInt(k)] :
         s \in SaveInputs \ {NotJSON}, f \in BOOLEAN, k \in {1, MaxCommits} }

\* the last call was a Save, alone or within Create, that reached calculateTestRunSuccess
ReachedEquivalenceCheck ==
    /\ lastCall.op \in {"Save", "Create"}
    /\ lastCall.op = "Create" => lastCall.metaOK
    /\ ~UnmarshalString(lastCall.schema).err

\* the result of the check in the last call, computed from the draft it found
LastCheckResult ==
    calculateTestRunSuccess([w \in WorkflowIDs |-> lastCall.existedDraft],
                            UnmarshalString(lastCall.schema).val, lastCall.id)

\* the result is the same for every previous draft and every new canvas with
\* the same compiled schemas and the same flag
ResultDetermined ==
    ReachedEquivalenceCheck =>
       LET new == CanvasToWorkflowSchema(UnmarshalString(lastCall.schema).val)
           sameNew == {s \in SaveInputs \ {NotJSON} :
                          SameSchema(CanvasToWorkflowSchema(UnmarshalString(s).val), new)}
           samePrevious == {e \in PreviousDrafts : SamePrevious(e, lastCall.existedDraft)}
           result == LastCheckResult
       IN \A e \in samePrevious, s \in sameNew :
             calculateTestRunSuccess([w \in WorkflowIDs |-> e], UnmarshalString(s).val,
                                     lastCall.id) = result

\* what a call that reached the check leaves in the repository: nothing when
\* the commit ID could not be generated after it, and otherwise the one draft
\* CreateOrUpdateDraft writes
CheckWritesNothing ==
    (ReachedEquivalenceCheck' /\ lastCall'.existedDraft = drafts[lastCall'.id]) =>
       /\ versions' = versions
       /\ \A w \in WorkflowIDs \ {lastCall'.id} : drafts'[w] = drafts[w] /\ metas'[w] = metas[w]
       /\ lastCall'.op = "Save" => metas' = metas
       /\ lastCall'.err => drafts' = drafts /\ idgen' = idgen
       /\ ~lastCall'.err => drafts'[lastCall'.id].Canvas = lastCall'.schema /\ idgen' = idgen + 1

\* the draft a successful call wrote carries the result of the check as its flag
ResultStored ==
    (ReachedEquivalenceCheck /\ ~lastCall.err) =>
       drafts[lastCall.id].TestRunSuccess = LastCheckResult

\* C30: calculateTestRunSuccess writes nothing to the repository (a call that
\* fails after it leaves drafts, metas, versions and the ID counter as they
\* were; a call that succeeds changes only the draft it saves), and its result
\* depends only on the compiled schema and the flag of the previous draft and
\* on the compiled schema of the new canvas
C30_EquivalenceCheckIsPure ==
    /\ [][CheckWritesNothing]_vars
    /\ [](ResultDetermined /\ ResultStored)

\* a Save of the tested canvas under another layout found the schemas equal
\* and then failed to get a commit ID: the draft and its flag are as before
C30_Witness ==
    /\ lastCall.op = "Save" /\ lastCall.err /\ ~lastCall.genOK
    /\ ReachedEquivalenceCheck
    /\ LastCheckResult
    /\ lastCall.schema # lastCall.existedDraft.Canvas
    /\ drafts[lastCall.id] = lastCall.existedDraft
    /\ drafts[lastCall.id].TestRunSuccess

(***************************************************************************)
(* Claims about drafts that call each other in the dependency collection   *)
(***************************************************************************)
\* the workflow asked for reaches itself, or a draft that reaches itself
OnCycle == depInput \in CyclicInputs /\ depInput.workflowID \in 1..5

\* C31 as stated: the dependency collection returns, a result or an error,
\* whatever drafts call each other
C31_CollectionTerminates == <>(depPc = "done")

\* C31, the part that holds: when no draft reached calls a draft that reaches
\* it the collection returns what the recursion gives, a draft reached twice
\* being walked twice; the calls only run out of stack on a cycle
C31_AcyclicCollectionReturns ==
    /\ Len(depStack) <= MaxCalls
    /\ depPc = "overflow" => OnCycle
    /\ (depPc = "done" /\ ~depErr) =>
          /\ ~OnCycle
          /\ ds = collectDependence(
                     UnmarshalString(GetEntity(depInput.graph, depInput.workflowID,
                                               FromDraft).val.Canvas).val.Nodes,
                     DependenceResource(<<>>, <<>>, <<>>), depInput.graph).val

\* draft 1 calls draft 2 and draft 2 calls draft 1: the calls of
\* collectDependence fill the stack, each on the nodes of the other draft
C31_Witness ==
    /\ depPc = "overflow"
    /\ depInput.workflowID = 1
    /\ Len(depStack) = MaxCalls
    /\ \A k \in 1..Len(depStack) : depStack[k].tools = <<>>
    /\ ds = DependenceResource(<<5, 5, 5>>, <<>>, <<>>)

(***************************************************************************)
(* Claims about preHandlerInput                                            *)
(***************************************************************************)
PartsOf(msg) == msg.MultiContent.parts

\* a media part of a modality the model of the call does not take
Unsupported(p) == p.Type \in MediaTypes /\ ModalOf(p.Type) \notin preInput.inputModal

NotText(p) == p.Type # ChatMessagePartTypeText

\* the text of a message: that of its text part, or its Content when it has none
MessageText(msg) ==
    IF \E k \in DOMAIN PartsOf(msg) : ~NotText(PartsOf(msg)[k])
    THEN TextOf(PartsOf(msg)) ELSE msg.Content

\* the URLs of the removed parts, each behind the word for its kind, the first part first
RECURSIVE UrlsAsText(_)
UrlsAsText(parts) ==
    IF parts = <<>> THEN ""
    ELSE "  this is a " \o WordOf(Head(parts).Type) \o ":" \o Head(parts).URL
         \o UrlsAsText(Tail(parts))

\* C32: a message with nil or empty MultiContent is returned as it is; of any
\* other message no media part of an unsupported modality is left in
\* MultiContent, the parts of supported modalities and of unknown type are
\* left in their order, and the text of the message is followed by the URLs of
\* the parts removed, in their order
C32_PartitionsByModality ==
    prePc = "done" =>
       LET in == preInput.input
           out == preResult
       IN  IF PartsOf(in) = <<>> THEN out = in
           ELSE /\ \A k \in DOMAIN PartsOf(out) : ~Unsupported(PartsOf(out)[k])
                /\ SelectSeq(PartsOf(out), NotText)
                      = SelectSeq(PartsOf(in), LAMBDA p : NotText(p) /\ ~Unsupported(p))
                /\ MessageText(out)
                      = MessageText(in) \o UrlsAsText(SelectSeq(PartsOf(in), Unsupported))

\* the image is supported and the file is not: the image stays, the URL of the
\* file follows the text
C32_Witness ==
    /\ prePc = "done"
    /\ preInput.inputModal = {ModalText, ModalImage}
    /\ preInput.input = Message("", Parts(
          <<ChatMessagePart(ChatMessagePartTypeImageURL, "", "http://example.com/image.jpg"),
            ChatMessagePart(ChatMessagePartTypeFileURL, "", "http://example.com/document.pdf"),
            ChatMessagePart(ChatMessagePartTypeText, "normal text", "")>>))
    /\ preResult = Message("", Parts(
          <<ChatMessagePart(ChatMessagePartTypeImageURL, "", "http://example.com/image.jpg"),
            ChatMessagePart(ChatMessagePartTypeText,
               "normal text  this is a file:http://example.com/document.pdf", "")>>))

(***************************************************************************)
(* Claims about what sets the test-run flag                                *)
(***************************************************************************)
Tested(dr, id) == dr[id] # NoDraft /\ dr[id].TestRunSuccess

\* a step of Create, Save or SyncRelatedWorkflowResources leaves no draft
\* with the flag that was without it
FlagNotRaised ==
    lastCall'.op \in {"Create", "Save", "Sync"} =>
       \A id \in WorkflowIDs : Tested(drafts', id) => Tested(drafts, id)

\* C33: no Save and no SyncRelatedWorkflowResources turns TestRunSuccess from
\* false to true; a draft written by SyncRelatedWorkflowResources has it false.
\* Once false the flag therefore stays false through every further save, one
\* that restores an earlier canvas included, until a test run sets it
C33_OnlyTestRunSetsFlag ==
    /\ [][FlagNotRaised]_vars
    /\ []((lastCall.op = "Sync" /\ ~lastCall.err) => ~Tested(drafts, lastCall.id))

\* the third save restored the canvas the workflow was created with, over a
\* draft of another compiled schema: the flag is false
C33_Witness ==
    /\ lastCall.op = "Save" /\ ~lastCall.err
    /\ idgen = 3
    /\ lastCall.schema = MarshalString(Canvas(<<Node(EntryID, NodeTypeEntry),
                                                Node(ExitID, NodeTypeExit)>>,
                                              <<Edge(EntryID, ExitID)>>, 0))
    /\ ~CanvasToWorkflowSchema(UnmarshalString(lastCall.existedDraft.Canvas).val).err
    /\ ~IsEqual(CanvasToWorkflowSchema(UnmarshalString(lastCall.existedDraft.Canvas).val).sc,
                CanvasToWorkflowSchema(UnmarshalString(lastCall.schema).val).sc)
    /\ ~lastCall.existedDraft.TestRunSuccess
    /\ ~Tested(drafts, lastCall.id)

(***************************************************************************)
(* Claims about what Publish requires of the draft                         *)
(***************************************************************************)
\* the draft the policy of the last Publish selects: the current draft, when
\* the policy names no commit or the commit of the current draft
SelectedDraft ==
    /\ lastCall.draft # NoDraft
    /\ lastCall.policy.CommitID \in {"", lastCall.draft.CommitID}

\* C34: a Publish that returns no error found the draft its policy selects
\* with TestRunSuccess true or was forced, and added one Version with the
\* canvas, the parameters and the commit ID of that draft and the reference
\* edges of its canvas; an unforced Publish of a draft without TestRunSuccess
\* returns an error; a Publish that returns an error adds no Version and no
\* reference edges
C34_PublishNeedsTestRunOrForce ==
    lastCall.op = "Publish" =>
       /\ ~lastCall.err =>
             /\ SelectedDraft
             /\ lastCall.draft.TestRunSuccess \/ lastCall.policy.Force
             /\ versions[lastCall.id] = Append(lastCall.versionsBefore,
                    [Version |-> lastCall.policy.Version,
                     Canvas |-> lastCall.draft.Canvas,
                     InputParamsStr |-> lastCall.draft.InputParamsStr,
                     OutputParamsStr |-> lastCall.draft.OutputParamsStr,
                     CommitID |-> lastCall.draft.CommitID, By |-> "Publish",
                     Refs |-> canvasToRefs(lastCall.id, lastCall.draft.Canvas).val])
       /\ (SelectedDraft /\ ~lastCall.policy.Force /\ ~lastCall.draft.TestRunSuccess) =>
             lastCall.err
       /\ lastCall.err => versions[lastCall.id] = lastCall.versionsBefore

\* an unforced Publish of the tested draft that calls two workflows, selected
\* by its commit ID, made the first version with the two reference edges
C34_Witness ==
    /\ lastCall.op = "Publish" /\ ~lastCall.err
    /\ ~lastCall.policy.Force
    /\ lastCall.policy.CommitID = FormatInt(2)
    /\ lastCall.draft.TestRunSuccess
    /\ Len(versions[lastCall.id]) = 1
    /\ versions[lastCall.id][1].CommitID = FormatInt(2)
    /\ Cardinality(versions[lastCall.id][1].Refs) = 2

(***************************************************************************)
(* Claims about the validation before the closure copy                     *)
(***************************************************************************)
\* the root and the app workflows reachable from it whose canvas holds a node
\* validation reports
WithIssues(root) ==
    {w \in Reachable(root) : HasIssue(UnmarshalString(app[w].Canvas).val.Nodes)}

\* an issue is added for a workflow that was not validated before
ValidatedOnce ==
    vIssues' # vIssues =>
       \E w \in DOMAIN app :
          /\ vIssues' = Append(vIssues, w)
          /\ w \notin hasVerifiedWorkflowIDMap
          /\ w \notin SeqRange(vIssues)

\* what holds of the issues while CopyWorkflowFromAppToLibrary runs and when it returns
IssuesCollected ==
    /\ SeqRange(vIssues) \subseteq WithIssues(op.root)
    /\ Cardinality(SeqRange(vIssues)) = Len(vIssues)
    /\ Len(vIssues) > 0 => repoCopies = <<>> /\ repoVersions = <<>>
    /\ (pc = "done" /\ copyResult.returned /\ ~copyResult.err) =>
          /\ SeqRange(copyResult.ValidateIssues) = WithIssues(op.root)
          /\ WithIssues(op.root) # {} =>
                /\ copyResult.CopiedWorkflows = <<>>
                /\ copyResult.WorkflowIDVersionMap = EmptyMap

\* no reference leads from the root back to the root
RootOffCycle == op.root \notin ReachFrom(AppReferences(op.root), Cardinality(DOMAIN app))

\* C35 as stated: CopyWorkflowFromAppToLibrary validates the root and every app
\* workflow reachable from it at most once, reports an issue once per workflow
\* that has one, and when any has one returns the issues of all of them and
\* has copied and published nothing
C35_AsStated ==
    /\ [][op.kind = "copy" => ValidatedOnce]_vars
    /\ [](op.kind = "copy" => IssuesCollected)

\* C35, the part that holds: the same, of a root no reference leads back to
C35_IssuesCollectedNothingCopied ==
    /\ [][(op.kind = "copy" /\ RootOffCycle) => ValidatedOnce]_vars
    /\ []((op.kind = "copy" /\ RootOffCycle) => IssuesCollected)

\* the root, workflow 3 and workflow 4 of the diamond have issues: all three
\* are returned, workflow 4 once, and nothing was copied
C35_Witness ==
    /\ pc = "done" /\ op.kind = "copy" /\ op.root = 1
    /\ app = AppIssues
    /\ copyResult.returned /\ ~copyResult.err
    /\ Len(copyResult.ValidateIssues) = 3
    /\ SeqRange(copyResult.ValidateIssues) = {1, 3, 4}
    /\ repoCopies = <<>> /\ repoVersions = <<>>

(***************************************************************************)
(* Claims about ModelForLLM                                                *)
(***************************************************************************)
\* the call is made inside a node that is run again after a failed attempt
Retrying == ~exeCtx.nil /\ exeCtx.NodeCtx /\ exeCtx.CurrentRetryCount > 0

\* the tools of the last successful WithTools
BoundTools == llmModel.Model.tools

\* the model the constructor was given that is to answer, with the tools bound
ExpectedModel ==
    IF llmInput.ctor = "NewModelWithFallback" /\ Retrying
    THEN [llmInput.f EXCEPT !.tools = BoundTools]
    ELSE [llmInput.m EXCEPT !.tools = BoundTools]

PrimaryAnswers ==
    llmLast.op \in {"Generate", "Stream"} =>
        /\ llmLast.by = ExpectedModel
        /\ llmInput.ctor = "NewModel" => llmLast.by.name = "primary"
        /\ exeCtx.nil \/ exeCtx.CurrentRetryCount = 0 => llmLast.by.name = "primary"

InfoOfAnswering ==
    /\ Info(llmModel, exeCtx) = ModelInfo(Generate(llmModel, exeCtx).by.name)
    /\ Info(llmModel, exeCtx) = ModelInfo(Stream(llmModel, exeCtx).by.name)
    /\ llmLast.op = "Info" => llmLast.info = ModelInfo(ExpectedModel.name)

\* WithTools binds the tools to both models and changes nothing else
ToolsOnBoth ==
    /\ llmModel.Model = [llmInput.m EXCEPT !.tools = BoundTools]
    /\ llmModel.FallbackModel =
          (IF llmInput.f = NilModel THEN NilModel ELSE [llmInput.f EXCEPT !.tools = BoundTools])
    /\ llmModel.UseFallback = (IF llmInput.ctor = "NewModel" THEN "never" ELSE "onRetry")

\* the node is run again: from then on the fallback answers
RetryMovesToFallback ==
    (exeCtx'.CurrentRetryCount > exeCtx.CurrentRetryCount
        /\ exeCtx'.NodeCtx /\ llmInput.ctor = "NewModelWithFallback")
    => /\ Generate(llmModel', exeCtx').by.name = "fallback"
       /\ Stream(llmModel', exeCtx').by.name = "fallback"

\* C39: a ModelForLLM built with NewModelWithFallback answers with the primary
\* model on the first attempt and with the fallback on every retry inside a node,
\* Info is the info of the model that Generate and Stream would use, a
\* ModelForLLM built with NewModel never uses a fallback, and WithTools keeps the
\* rule while binding the tools to both models
C39_FallbackOnRetryOnly ==
    /\ [][RetryMovesToFallback]_vars
    /\ [](llmInput.ctor # "" => PrimaryAnswers /\ InfoOfAnswering /\ ToolsOnBoth)

\* the second retry of a node whose model was given tools: the fallback, with the
\* tools, answers the Stream
C39_Witness ==
    /\ llmInput.ctor = "NewModelWithFallback"
    /\ exeCtx = ExeCtx(TRUE, 2)
    /\ llmLast.op = "Stream"
    /\ llmLast.by = [ChatModel("fallback", TRUE, FALSE) EXCEPT !.tools = <<"t1", "t2">>]
    /\ llmLast.callbacks
    /\ Info(llmModel, exeCtx) = ModelInfo("fallback")

(***************************************************************************)
(* Claims about user sessions                                              *)
(***************************************************************************)
\* ValidateSession finds the session of user u for the key
ValidFor(rows, sessionKey, t, u) ==
    ValidateSession(rows, sessionKey, t) = [err |-> "", exist |-> TRUE, UserID |-> u]

Rejected(rows, sessionKey, t) ==
    ValidateSession(rows, sessionKey, t) = [err |-> ErrUserAuthenticationFailed, exist |-> FALSE, UserID |-> 0]

NoSession(rows, sessionKey, t) ==
    ValidateSession(rows, sessionKey, t) = [err |-> "", exist |-> FALSE, UserID |-> 0]

Expired(sessionKey, t) == t > sessionKey.sessionData.ExpiresAt

\* a later Login of the same user wrote a key after entry j
Superseded(j) == \E k \in DOMAIN issued : k > j /\ issued[k].UserID = issued[j].UserID

\* the key a successful Login returns validates for its user
LoginKeyValidates ==
    (issued' # issued /\ sessLast'.op = "Login" /\ sessLast'.err = "")
        => ValidFor(users', sessLast'.key, now', sessLast'.UserID)

\* after a Logout no key presented validates for the user
LogoutInvalidates ==
    (sessLast'.op = "Logout" /\ sessLast'.err = "" /\ sessLast' # sessLast)
        => \A k \in PresentedKeys : ~ValidFor(users', k, now', sessLast'.UserID)

\* a key starts to validate for a user only by a Login of that user writing it
ValidOnlyByLogin ==
    \A u \in DOMAIN users : \A k \in PresentedKeys' :
        (ValidFor(users', k, now', u) /\ ~ValidFor(users, k, now, u))
            => /\ Len(issued') = Len(issued) + 1
               /\ issued'[Len(issued')].UserID = u
               /\ issued'[Len(issued')].key = k

\* when ValidateSession returns, it returns what the store and the clock give
ValidateReports ==
    (sessLast'.op = "ValidateSession" /\ sessLast' # sessLast)
        => ValidateSession(users, sessLast'.key, now) =
              [err |-> sessLast'.err, exist |-> sessLast'.exist, UserID |-> sessLast'.UserID]

OneKeyPerUser ==
    \A u \in DOMAIN users :
        Cardinality({k \in PresentedKeys \cup {users[u].SessionKey} : ValidFor(users, k, now, u)}) <= 1

SupersededKeysGone ==
    \A j \in DOMAIN issued :
        Superseded(j) =>
            /\ \A u \in DOMAIN users : ~ValidFor(users, issued[j].key, now, u)
            /\ ~Expired(issued[j].key, now) => NoSession(users, issued[j].key, now)

BadKeysRejected ==
    \A k \in PresentedKeys :
        (~k.wellFormed \/ k.signature # Hmac(k.sessionData) \/ Expired(k, now))
            => Rejected(users, k, now)

\* C40: the key a successful Login returns validates for its user; after a Logout,
\* or after a later Login of the same user, a key issued before validates no more
\* (no session exists for it); at most one key validates for a user at any time;
\* a key with a wrong signature or past its expiry is rejected with an
\* authentication error
C40_SessionLifecycle ==
    /\ [][sessLast.op # "off" =>
            LoginKeyValidates /\ LogoutInvalidates /\ ValidOnlyByLogin /\ ValidateReports]_vars
    /\ [](sessLast.op # "off" => OneKeyPerUser /\ SupersededKeysGone /\ BadKeysRejected)

\* user 1 has logged in twice; the first key, not yet expired, is presented and no
\* session exists for it, while the second key validates
C40_Witness ==
    /\ Len(issued) = 2
    /\ issued[1].UserID = 1 /\ issued[2].UserID = 1
    /\ issued[1].returned /\ issued[2].returned
    /\ sessLast = SessionCall("ValidateSession", "", 0, issued[1].key, FALSE)
    /\ ~Expired(issued[1].key, now)
    /\ ValidFor(users, issued[2].key, now, 1)

====
